---- MODULE Spec2Model ----
(***************************************************************************)
(* Work-Tracker-SN: the task store (src/src/store/taskStore.ts), the       *)
(* recurrence engine (utils/recurrence, src/unnamed/part_001), the alert   *)
(* engine (utils/alertEngine, src/unnamed/part_002) and the host effect    *)
(* of AppShell (src/unnamed/part_000) that drives them.                    *)
(*                                                                         *)
(* Encoding.  An optional JS value (undefined or v) is the sequence <<>>   *)
(* or <<v>>.  A calendar date string 'yyyy-MM-dd' is the tuple <<y,m,d>>;  *)
(* a Date at local midnight is its day number counted from 2023-01-01.     *)
(* An instant (ISO timestamp) is a tick of the variable clock.  A uuid is  *)
(* a number drawn from the counter nextId.  A patch (Partial<Task>) is the *)
(* sequence of its [key, val] pairs in key order, as Object.entries gives. *)
(***************************************************************************)
EXTENDS Integers, Sequences, FiniteSets, TLC

VARIABLES
  tasks,      \* useTaskStore.tasks: the in-memory task collection
  alerts,     \* useNotificationStore.alerts
  today,      \* the current day (day number of local midnight)
  clock,      \* the current instant
  nextId,     \* the last uuid handed out
  pending,    \* the [tasks] effect of AppShell has to run (tasks changed since)
  lastCall,   \* the handler that took the last step and the updateTask calls it made
  maxCycle,   \* history: the largest recurrence.cycleCount each task id has had
  dismissed,  \* useNotificationStore.dismissed: the set of dismissed alert ids
  lapsed,     \* history: the dismissed ids whose alert a later scan did not emit
  projects,   \* useProjectStore.projects: the ids of the projects
  saved,      \* localStorage 'arc-tasks': the persisted task collection
  raised,     \* the last handler or effect was left by an exception
  savedDismissed, \* localStorage 'arc-dismissed': the persisted dismissed ids
  archive     \* localStorage 'arc-tasks-archive': the archived tasks

vars == <<tasks, alerts, today, clock, nextId, pending, lastCall, maxCycle,
          dismissed, lapsed, projects, saved, raised, savedDismissed, archive>>

\* ---------------------------------------------------------------- bounds
MaxTasks == 2
MaxClock == 4
MaxSubtasks == 1
MaxInterval == 3

\* ------------------------------------------------------- optional values
None == <<>>
Some(v) == <<v>>
IsSome(o) == Len(o) = 1
Val(o) == o[1]

\* ----------------------------------------------------------------- enums
Statuses == {"Not Started", "In Progress", "Blocked", "Under Review", "Complete", "Cancelled"}
Priorities == {"Critical", "High", "Medium", "Low"}
Patterns == {"Daily", "Weekly", "Bi-weekly", "Monthly", "Quarterly", "Custom"}
MilestoneStatuses == {"Upcoming", "In Progress", "Achieved", "Missed"}

\* ----------------------------------------------------------------- dates
Years == 2023..2026
IsLeap(y) == (y % 4 = 0 /\ y % 100 # 0) \/ y % 400 = 0
DaysInMonth(y, m) ==
  IF m = 2 THEN (IF IsLeap(y) THEN 29 ELSE 28)
  ELSE IF m \in {4, 6, 9, 11} THEN 30 ELSE 31
DaysInYear(y) == IF IsLeap(y) THEN 366 ELSE 365

RECURSIVE DaysBeforeYear(_)
DaysBeforeYear(y) == IF y <= 2023 THEN 0 ELSE DaysBeforeYear(y - 1) + DaysInYear(y - 1)

RECURSIVE DaysBeforeMonth(_, _)
DaysBeforeMonth(y, m) == IF m <= 1 THEN 0 ELSE DaysBeforeMonth(y, m - 1) + DaysInMonth(y, m - 1)

\* An Invalid Date (getTime() is NaN).
InvalidDate == -1

\* parseISO: the Date at local midnight of a 'yyyy-MM-dd' string, Invalid Date
\* when the month or the day does not exist.
DayNumber ==
  [s \in Years \X (1..12) \X (1..31) |->
     IF s[3] \in 1..DaysInMonth(s[1], s[2])
     THEN DaysBeforeYear(s[1]) + DaysBeforeMonth(s[1], s[2]) + (s[3] - 1)
     ELSE InvalidDate]
parseISO(s) == IF s \in DOMAIN DayNumber THEN DayNumber[s] ELSE InvalidDate

YearOf(n) == CHOOSE y \in Years : DaysBeforeYear(y) <= n /\ n < DaysBeforeYear(y) + DaysInYear(y)
\* The month of year y that holds the r-th day (from 0) of the year.
MonthIn(y, r) ==
  CHOOSE m \in 1..12 : DaysBeforeMonth(y, m) <= r /\ r < DaysBeforeMonth(y, m) + DaysInMonth(y, m)
FormatYM(y, m, r) == <<y, m, r - DaysBeforeMonth(y, m) + 1>>
FormatY(y, r) == FormatYM(y, MonthIn(y, r), r)
FormatN(n, y) == FormatY(y, n - DaysBeforeYear(y))

\* format(date, 'yyyy-MM-dd') of a valid Date: the calendar, day by day.
Calendar == [n \in 0..(DaysBeforeYear(2027) - 1) |-> FormatN(n, YearOf(n))]
format(n) == Calendar[n]

addDays(n, k) == IF n = InvalidDate THEN InvalidDate ELSE n + k
addWeeks(n, k) == addDays(n, 7 * k)
\* date-fns addMonths: the same day of the target month, or its last day when
\* the target month is shorter.
\* Mutant of ClampedDate: a day past the end of the month runs into the next
\* month.
ClampedDate_Overflows(y, m, day) == parseISO(<<y, m, 1>>) + (day - 1)

ClampedDate(y, m, day) ==
  parseISO(<<y, m, IF day > DaysInMonth(y, m) THEN DaysInMonth(y, m) ELSE day>>)
MonthIndexDate(mi, day) == ClampedDate(mi \div 12, (mi % 12) + 1, day)
AddMonthsTo(d, k) == MonthIndexDate((d[1] * 12 + (d[2] - 1)) + k, d[3])
addMonths(n, k) == IF n = InvalidDate THEN InvalidDate ELSE AddMonthsTo(format(n), k)
addQuarters(n, k) == addMonths(n, 3 * k)
isBefore(a, b) == a # InvalidDate /\ b # InvalidDate /\ a < b
isAfter(a, b) == a # InvalidDate /\ b # InvalidDate /\ a > b

\* ------------------------------------------------------ String(v ?? '')
Pad2(n) == IF n < 10 THEN "0" \o ToString(n) ELSE ToString(n)
DateText(s) == ToString(s[1]) \o "-" \o Pad2(s[2]) \o "-" \o Pad2(s[3])
InstantText(t) == "T" \o ToString(t)
RECURSIVE ArrayText(_)
ArrayText(n) ==
  IF n = 0 THEN ""
  ELSE IF n = 1 THEN "[object Object]"
  ELSE ArrayText(n - 1) \o ",[object Object]"

\* The text String(v ?? '') gives for the value v of task field key.
Text(key, v) ==
  CASE key \in {"title", "taskType", "status", "priority"} -> v
    [] key = "dueDate" -> DateText(v)
    [] key \in {"description", "assignee", "notes"} ->
         IF IsSome(v) THEN Val(v) ELSE ""
    [] key = "projectId" -> IF IsSome(v) THEN ToString(Val(v)) ELSE ""
    [] key = "startDate" -> IF IsSome(v) THEN DateText(Val(v)) ELSE ""
    [] key = "completedAt" -> IF IsSome(v) THEN InstantText(Val(v)) ELSE ""
    [] key = "reminderDays" -> ToString(v)
    [] key = "isRecurring" -> IF v THEN "true" ELSE "false"
    [] key = "isPaused" -> IF IsSome(v) THEN (IF Val(v) THEN "true" ELSE "false") ELSE ""
    [] key = "recurrence" -> IF IsSome(v) THEN "[object Object]" ELSE ""
    [] key \in {"updates", "subtasks"} -> ArrayText(Len(v))
    [] key = "links" -> IF IsSome(v) THEN ArrayText(Len(Val(v))) ELSE ""

\* ------------------------------------------------------------ task store
makeChangelog(id, now, field, oldText, newText) ==
  [id |-> id, timestamp |-> now, field |-> field, oldValue |-> oldText, newValue |-> newText]

KV(k, v) == [key |-> k, val |-> v]
HasKey(p, k) == \E i \in 1..Len(p) : p[i].key = k
Get(p, k) == p[CHOOSE i \in 1..Len(p) : p[i].key = k].val

\* { ...task, ...updates }
RECURSIVE Merge(_, _)
Merge(task, p) ==
  IF p = <<>> THEN task
  ELSE Merge([task EXCEPT ![Head(p).key] = Head(p).val], Tail(p))

SelectSeqKeys(p) == SelectSeq(p, LAMBDA e : e.key # "updatedAt")

\* The completedAt updateTask derives (taskStore.ts 105-109).
DeriveCompletedAt(task, updates, now) ==
  IF HasKey(updates, "status") /\ Get(updates, "status") = "Complete" /\ task.status # "Complete"
  THEN Some(now)
  ELSE IF HasKey(updates, "status") /\ Get(updates, "status") # "Complete"
       THEN None
       ELSE task.completedAt

\* Mutant of EntriesOf: a key whose new value is the old one gets no entry.
EntriesOf_SkipsUnchanged(task, ks, now, idBase) ==
  [i \in 1..Len(SelectSeq(ks, LAMBDA e : e.val # task[e.key])) |->
     makeChangelog(idBase + i, now,
                   SelectSeq(ks, LAMBDA e : e.val # task[e.key])[i].key,
                   Text(SelectSeq(ks, LAMBDA e : e.val # task[e.key])[i].key,
                        task[SelectSeq(ks, LAMBDA e : e.val # task[e.key])[i].key]),
                   Text(SelectSeq(ks, LAMBDA e : e.val # task[e.key])[i].key,
                        SelectSeq(ks, LAMBDA e : e.val # task[e.key])[i].val))]

\* The changelog entries updateTask makes for the entries ks of a patch
\* (taskStore.ts 102-104).
EntriesOf(task, ks, now, idBase) ==
  [i \in 1..Len(ks) |->
     makeChangelog(idBase + i, now, ks[i].key, Text(ks[i].key, task[ks[i].key]),
                   Text(ks[i].key, ks[i].val))]

PatchEntries(task, updates, now, idBase) == EntriesOf(task, SelectSeqKeys(updates), now, idBase)

\* Mutant of UpdatedTask: the changelog is rebuilt from the new entries alone.
UpdatedTask_DropsHistory(task, updates, now, idBase) ==
  [Merge(task, updates) EXCEPT
     !.completedAt = DeriveCompletedAt(task, updates, now),
     !.updatedAt = now,
     !.changelog = PatchEntries(task, updates, now, idBase)]

\* Mutant of UpdatedTask: the patch is spread last, over the derived fields.
UpdatedTask_PatchWins(task, updates, now, idBase) ==
  Merge([task EXCEPT
           !.completedAt = DeriveCompletedAt(task, updates, now),
           !.updatedAt = now,
           !.changelog = task.changelog \o PatchEntries(task, updates, now, idBase)],
        updates)

\* One task under updateTask's map callback (taskStore.ts 100-116).
UpdatedTask(task, updates, now, idBase) ==
  [Merge(task, updates) EXCEPT
     !.completedAt = DeriveCompletedAt(task, updates, now),
     !.updatedAt = now,
     !.changelog = task.changelog \o PatchEntries(task, updates, now, idBase)]

\* Mutant of updateTask: the map callback stamps the tasks it does not patch.
updateTask_StampsAll(ts, id, updates, now, idBase) ==
  [i \in 1..Len(ts) |->
     IF ts[i].id # id THEN [ts[i] EXCEPT !.updatedAt = now]
     ELSE UpdatedTask(ts[i], updates, now, idBase)]

updateTask(ts, id, updates, now, idBase) ==
  [i \in 1..Len(ts) |-> IF ts[i].id # id THEN ts[i] ELSE UpdatedTask(ts[i], updates, now, idBase)]

\* createTask's new task (taskStore.ts 68-91).  data.subtasks and data.milestones
\* come without ids; ids are drawn in the order the code draws them.
\* { ...s, id: uuidv4() }: the fields given, title, status and dueDate when
\* there is one, and the id (taskStore.ts 86, 131).
WithId(s, id) == [k \in DOMAIN s \cup {"id"} |-> IF k = "id" THEN id ELSE s[k]]

NewTask(data, now, idBase) ==
  LET ns == Len(data.subtasks)
      nm == Len(data.milestones)
  IN [id |-> idBase + 1,
      title |-> data.title,
      taskType |-> data.taskType,
      status |-> data.status,
      priority |-> data.priority,
      dueDate |-> data.dueDate,
      description |-> data.description,
      startDate |-> data.startDate,
      assignee |-> data.assignee,
      notes |-> data.notes,
      isRecurring |-> data.isRecurring,
      recurrence |-> data.recurrence,
      reminderDays |-> data.reminderDays,
      updates |-> <<>>,
      subtasks |-> [i \in 1..ns |-> WithId(data.subtasks[i], idBase + 1 + i)],
      milestones |-> [i \in 1..nm |->
                      [id |-> idBase + 1 + ns + i, name |-> data.milestones[i].name,
                       targetDate |-> data.milestones[i].targetDate,
                       status |-> data.milestones[i].status]],
      createdAt |-> now,
      updatedAt |-> now,
      changelog |-> <<makeChangelog(idBase + 2 + ns + nm, now, "created", "", data.title)>>,
      completedAt |-> None,
      isPaused |-> None,
      projectId |-> None,
      links |-> None]

createTask(ts, data, now, idBase) == Append(ts, NewTask(data, now, idBase))

\* Mutant of deleteTask: the filter keeps the task and drops the others.
deleteTask_KeepsMatch(ts, id) == SelectSeq(ts, LAMBDA t : t.id = id)

deleteTask(ts, id) == SelectSeq(ts, LAMBDA t : t.id # id)

\* The sub-operations: map over the collection, rebuild the owner's list and
\* stamp updatedAt (taskStore.ts 128-211).
MapTask(ts, taskId, F(_)) ==
  [i \in 1..Len(ts) |-> IF ts[i].id # taskId THEN ts[i] ELSE F(ts[i])]

addSubtask(ts, taskId, subtask, now, idBase) ==
  LET F(task) == [task EXCEPT
                    !.subtasks = Append(task.subtasks, WithId(subtask, idBase + 1)),
                    !.updatedAt = now]
  IN MapTask(ts, taskId, F)

updateSubtask(ts, taskId, subtaskId, newStatus, now) ==
  LET F(task) == [task EXCEPT
                    !.subtasks = [j \in 1..Len(task.subtasks) |->
                        IF task.subtasks[j].id = subtaskId
                        THEN [task.subtasks[j] EXCEPT !.status = newStatus]
                        ELSE task.subtasks[j]],
                    !.updatedAt = now]
  IN MapTask(ts, taskId, F)

deleteSubtask(ts, taskId, subtaskId, now) ==
  LET F(task) == [task EXCEPT
                    !.subtasks = SelectSeq(task.subtasks, LAMBDA s : s.id # subtaskId),
                    !.updatedAt = now]
  IN MapTask(ts, taskId, F)

toggleSubtask(ts, taskId, subtaskId, now) ==
  LET F(task) == [task EXCEPT
                    !.subtasks = [j \in 1..Len(task.subtasks) |->
                        IF task.subtasks[j].id = subtaskId
                        THEN [task.subtasks[j] EXCEPT
                                !.status = IF task.subtasks[j].status = "Done" THEN "Open" ELSE "Done"]
                        ELSE task.subtasks[j]],
                    !.updatedAt = now]
  IN MapTask(ts, taskId, F)

addMilestone(ts, taskId, milestone, now, idBase) ==
  LET F(task) == [task EXCEPT
                    !.milestones = Append(task.milestones,
                        [id |-> idBase + 1, name |-> milestone.name,
                         targetDate |-> milestone.targetDate, status |-> milestone.status]),
                    !.updatedAt = now]
  IN MapTask(ts, taskId, F)

updateMilestone(ts, taskId, milestoneId, newStatus, now) ==
  LET F(task) == [task EXCEPT
                    !.milestones = [j \in 1..Len(task.milestones) |->
                        IF task.milestones[j].id = milestoneId
                        THEN [task.milestones[j] EXCEPT !.status = newStatus]
                        ELSE task.milestones[j]],
                    !.updatedAt = now]
  IN MapTask(ts, taskId, F)

deleteMilestone(ts, taskId, milestoneId, now) ==
  LET F(task) == [task EXCEPT
                    !.milestones = SelectSeq(task.milestones, LAMBDA m : m.id # milestoneId),
                    !.updatedAt = now]
  IN MapTask(ts, taskId, F)

\* Mutant of addUpdate: the new entry is put after the entries there are.
addUpdate_PutsLast(ts, taskId, text, now, idBase) ==
  LET entry == [id |-> idBase + 1, timestamp |-> now, text |-> text]
      F(task) == [task EXCEPT
                    !.updates = Append(task.updates, entry),
                    !.updatedAt = now,
                    !.changelog = Append(task.changelog,
                                         makeChangelog(idBase + 2, now, "update", "", text))]
  IN MapTask(ts, taskId, F)

addUpdate(ts, taskId, text, now, idBase) ==
  LET entry == [id |-> idBase + 1, timestamp |-> now, text |-> text]
      F(task) == [task EXCEPT
                    !.updates = <<entry>> \o task.updates,
                    !.updatedAt = now,
                    !.changelog = Append(task.changelog,
                                         makeChangelog(idBase + 2, now, "update", "", text))]
  IN MapTask(ts, taskId, F)

\* ------------------------------------------------------ recurrence engine
\* nextDueDate (recurrence.ts 4-30).  format throws a RangeError on an Invalid
\* Date: callers test Throws first.
Throws(current) == parseISO(current) = InvalidDate

\* Mutant of AddPattern: Bi-weekly adds interval weeks, not twice as many.
AddPattern_BiweeklyNotDoubled(date, pattern, interval) ==
  CASE pattern = "Daily" -> addDays(date, interval)
    [] pattern = "Weekly" -> addWeeks(date, interval)
    [] pattern = "Bi-weekly" -> addWeeks(date, interval)
    [] pattern = "Monthly" -> addMonths(date, interval)
    [] pattern = "Quarterly" -> addQuarters(date, interval)
    [] pattern = "Custom" -> addDays(date, interval)
    [] OTHER -> addWeeks(date, 1)

AddPattern(date, pattern, interval) ==
  CASE pattern = "Daily" -> addDays(date, interval)
    [] pattern = "Weekly" -> addWeeks(date, interval)
    [] pattern = "Bi-weekly" -> addWeeks(date, 2 * interval)
    [] pattern = "Monthly" -> addMonths(date, interval)
    [] pattern = "Quarterly" -> addQuarters(date, interval)
    [] pattern = "Custom" -> addDays(date, interval)
    [] OTHER -> addWeeks(date, 1)

nextDueDate(current, pattern, interval) == format(AddPattern(parseISO(current), pattern, interval))

\* Mutants of NextPatch: the subtasks are carried over as they are; the status
\* is left Complete.
NextPatch_KeepSubtasks(task, rec, newDue, now) ==
  << KV("dueDate", newDue),
     KV("status", "Not Started"),
     KV("completedAt", None),
     KV("updates", <<>>),
     KV("subtasks", task.subtasks),
     KV("recurrence", Some([rec EXCEPT
                              !.lastCompleted = Some(now),
                              !.nextDue = Some(newDue),
                              !.cycleCount = rec.cycleCount + 1])) >>

NextPatch_KeepStatus(task, rec, newDue, now) ==
  << KV("dueDate", newDue),
     KV("completedAt", None),
     KV("updates", <<>>),
     KV("subtasks", [j \in 1..Len(task.subtasks) |->
                       [task.subtasks[j] EXCEPT !.status = "Open"]]),
     KV("recurrence", Some([rec EXCEPT
                              !.lastCompleted = Some(now),
                              !.nextDue = Some(newDue),
                              !.cycleCount = rec.cycleCount + 1])) >>

\* The patch generateNextInstance returns (recurrence.ts 37-49), in key order.
\* Mutant of NextPatch: the subtasks are rebuilt from id and title alone.
NextPatch_RebuildsSubtasks(task, rec, newDue, now) ==
  << KV("dueDate", newDue),
     KV("status", "Not Started"),
     KV("completedAt", None),
     KV("updates", <<>>),
     KV("subtasks", [j \in 1..Len(task.subtasks) |->
                       [id |-> task.subtasks[j].id, title |-> task.subtasks[j].title,
                        status |-> "Open"]]),
     KV("recurrence", Some([rec EXCEPT
                              !.lastCompleted = Some(now),
                              !.nextDue = Some(newDue),
                              !.cycleCount = rec.cycleCount + 1])) >>

NextPatch(task, rec, newDue, now) ==
  << KV("dueDate", newDue),
     KV("status", "Not Started"),
     KV("completedAt", None),
     KV("updates", <<>>),
     KV("subtasks", [j \in 1..Len(task.subtasks) |->
                       [task.subtasks[j] EXCEPT !.status = "Open"]]),
     KV("recurrence", Some([rec EXCEPT
                              !.lastCompleted = Some(now),
                              !.nextDue = Some(newDue),
                              !.cycleCount = rec.cycleCount + 1])) >>

NextPatchOf(task, rec, now) ==
  NextPatch(task, rec, nextDueDate(task.dueDate, rec.pattern, rec.interval), now)

\* generateNextInstance (recurrence.ts 32-50)
generateNextInstance(task, now) ==
  IF ~task.isRecurring \/ ~IsSome(task.recurrence) THEN <<>>
  ELSE NextPatchOf(task, Val(task.recurrence), now)

\* Mutant of Eligible: a task that was ever paused is skipped, resumed or not.
Eligible_SkipsResumed(task) ==
  /\ task.isRecurring
  /\ task.isPaused = None
  /\ IsSome(task.recurrence)
  /\ task.status = "Complete"

\* The guards of checkAndGenerateRecurring's loop (recurrence.ts 60-61).
Eligible(task) ==
  /\ task.isRecurring
  /\ task.isPaused # Some(TRUE)
  /\ IsSome(task.recurrence)
  /\ task.status = "Complete"

\* The sweep's updateTask(task.id, next) (recurrence.ts 64-66); next.dueDate
\* is a date string, so the call is always made.
SweepCall(acc, id, next, now) ==
  [tasks |-> updateTask(acc.tasks, id, next, now, acc.nextId),
   nextId |-> acc.nextId +
              (IF \E k \in 1..Len(acc.tasks) : acc.tasks[k].id = id THEN Len(next) ELSE 0),
   calls |-> Append(acc.calls, [id |-> id, patch |-> next]),
   threw |-> FALSE]

\* checkAndGenerateRecurring (recurrence.ts 52-68) from task i of the snapshot
\* on: acc holds the store's collection, the uuids drawn, the updateTask calls
\* made and whether the loop was left by an exception.
RECURSIVE sweepFrom(_, _, _, _)
sweepFrom(snapshot, i, acc, now) ==
  IF i > Len(snapshot) THEN acc
  ELSE IF ~Eligible(snapshot[i]) THEN sweepFrom(snapshot, i + 1, acc, now)
  ELSE IF Throws(snapshot[i].dueDate) THEN [acc EXCEPT !.threw = TRUE]
  ELSE CHOOSE r \in {sweepFrom(snapshot, i + 1, a, now) :
                      a \in {SweepCall(acc, snapshot[i].id, next, now) :
                              next \in {generateNextInstance(snapshot[i], now)}}} : TRUE

checkAndGenerateRecurring(snapshot, store, now, idBase) ==
  sweepFrom(snapshot, 1, [tasks |-> store, nextId |-> idBase, calls |-> <<>>, threw |-> FALSE], now)

\* ------------------------------------------------------------ alert engine
\* Mutant of alertId: the milestone's id is left out.
alertId_WithoutExtra(type, taskId, extra) == type \o ":" \o ToString(taskId)

\* alertId (alertEngine.ts 5-7); a uuid's text is the text of its number.
alertId(type, taskId, extra) ==
  type \o ":" \o ToString(taskId) \o (IF IsSome(extra) THEN ":" \o ToString(Val(extra)) ELSE "")

\* task.reminderDays || 2 (alertEngine.ts 43)
ReminderWindow(task) == IF task.reminderDays # 0 THEN task.reminderDays ELSE 2

DueAlert(task, type) ==
  <<[id |-> alertId(type, task.id, None), type |-> type, taskId |-> task.id,
     taskTitle |-> task.title, milestoneId |-> None, date |-> task.dueDate]>>

\* Mutant of DueAlertsAt: a task due today counts as overdue.
DueAlertsAt_TodayIsOverdue(task, due, day) ==
  IF due # InvalidDate /\ due <= day THEN DueAlert(task, "overdue")
  ELSE IF /\ task.priority \in {"Critical", "High"}
          /\ isAfter(day, addDays(due, -ReminderWindow(task)))
          /\ ~isBefore(due, day)
       THEN DueAlert(task, "at-risk")
       ELSE <<>>

\* The due-date alert of one task whose due Date is due (alertEngine.ts 20-53):
\* at most one.
DueAlertsAt(task, due, day) ==
  IF isBefore(due, day) THEN DueAlert(task, "overdue")
  ELSE IF due # InvalidDate /\ due = day THEN DueAlert(task, "due-today")
  ELSE IF /\ task.priority \in {"Critical", "High"}
          /\ isAfter(day, addDays(due, -ReminderWindow(task)))
          /\ ~isBefore(due, day)
       THEN DueAlert(task, "at-risk")
       ELSE <<>>

DueAlerts(task, day) == DueAlertsAt(task, parseISO(task.dueDate), day)

\* Mutant of MilestoneAlertAt: a target three days ahead still counts as soon.
MilestoneAlertAt_ThreeDaysAhead(task, ms, msDate, day) ==
  IF /\ ms.status \notin {"Achieved", "Missed"}
     /\ ~isBefore(msDate, day)
     /\ msDate # InvalidDate /\ addDays(day, 3) >= msDate
  THEN <<[id |-> alertId("milestone-due-soon", task.id, Some(ms.id)),
          type |-> "milestone-due-soon", taskId |-> task.id,
          taskTitle |-> task.title, milestoneId |-> Some(ms.id),
          date |-> ms.targetDate]>>
  ELSE <<>>

\* The alert of one milestone whose target Date is msDate (alertEngine.ts 57-70).
MilestoneAlertAt(task, ms, msDate, day) ==
  IF /\ ms.status \notin {"Achieved", "Missed"}
     /\ ~isBefore(msDate, day)
     /\ isAfter(addDays(day, 3), msDate)
  THEN <<[id |-> alertId("milestone-due-soon", task.id, Some(ms.id)),
          type |-> "milestone-due-soon", taskId |-> task.id,
          taskTitle |-> task.title, milestoneId |-> Some(ms.id),
          date |-> ms.targetDate]>>
  ELSE <<>>

\* The milestone alerts of one task (alertEngine.ts 55-71), in milestone order.
RECURSIVE MilestoneAlerts(_, _, _)
MilestoneAlerts(task, j, day) ==
  IF j > Len(task.milestones) THEN <<>>
  ELSE MilestoneAlertAt(task, task.milestones[j], parseISO(task.milestones[j].targetDate), day)
       \o MilestoneAlerts(task, j + 1, day)

\* computeAlerts (alertEngine.ts 9-75) from task i on, in task order.
RECURSIVE alertsFrom(_, _, _)
alertsFrom(ts, i, day) ==
  IF i > Len(ts) THEN <<>>
  ELSE (IF ts[i].status = "Complete" \/ ts[i].status = "Cancelled" THEN <<>>
        ELSE DueAlerts(ts[i], day) \o MilestoneAlerts(ts[i], 1, day))
       \o alertsFrom(ts, i + 1, day)

computeAlerts(ts, day) == alertsFrom(ts, 1, day)

\* ------------------------------------------------------------- the inputs
Today0 == parseISO(<<2024, 1, 30>>)
DueInputs == {<<2024, 1, 29>>, <<2024, 1, 31>>}
StatusInputs == {"In Progress", "Complete", "Cancelled"}
\* defaultRecurrence (TaskForm.tsx 21)
defaultRecurrence ==
  [pattern |-> "Weekly", interval |-> 1, nextDue |-> None, lastCompleted |-> None, cycleCount |-> 0]
\* The subtasks and milestones entered in the form of a new task: none, or one
\* done subtask and one milestone due tomorrow.
SubtaskInputs == {<<>>, <<[title |-> "s", status |-> "Done"]>>}
MilestoneInput == [name |-> "m", targetDate |-> <<2024, 1, 31>>, status |-> "Upcoming"]

\* What TaskForm.handleSubmit hands to handleCreateTask / handleEditSave
\* (TaskForm.tsx 54-64) for the fields the form was opened with and the
\* fields the user set.
FormData(title, status, dueDate, isRecurring, recurrence, subtasks, milestones) ==
  [title |-> title, description |-> Some(""), taskType |-> "System Admin",
   status |-> status, priority |-> "High", dueDate |-> dueDate, startDate |-> None,
   assignee |-> None, notes |-> Some(""), reminderDays |-> 2,
   isRecurring |-> isRecurring,
   recurrence |-> IF isRecurring THEN Some(recurrence) ELSE None,
   subtasks |-> subtasks, milestones |-> milestones, links |-> <<>>]

\* handleEditSave's rest: the form data without subtasks and milestones, in
\* key order (TaskDetailPanel.tsx 86-88).
FormPatch(d) ==
  << KV("title", d.title), KV("description", d.description), KV("taskType", d.taskType),
     KV("status", d.status), KV("priority", d.priority), KV("dueDate", d.dueDate),
     KV("startDate", d.startDate), KV("assignee", d.assignee), KV("notes", d.notes),
     KV("reminderDays", d.reminderDays), KV("isRecurring", d.isRecurring),
     KV("recurrence", d.recurrence), KV("links", Some(d.links)) >>

TaskIds == {tasks[i].id : i \in 1..Len(tasks)}
TaskById(ts, id) == ts[CHOOSE i \in 1..Len(ts) : ts[i].id = id]
Call(op, id, sub, calls) == [op |-> op, id |-> id, sub |-> sub, calls |-> calls]

\* The history of cycle counts after a step that leaves the collection ts.
CycleOf(task) == IF IsSome(task.recurrence) THEN Val(task.recurrence).cycleCount ELSE 0
Largest(S) == CHOOSE n \in S : \A m \in S : m <= n
CycleHigh(mc, ts) ==
  [id \in DOMAIN mc \cup {ts[i].id : i \in 1..Len(ts)} |->
     Largest((IF id \in DOMAIN mc THEN {mc[id]} ELSE {0})
             \cup {CycleOf(ts[i]) : i \in {k \in 1..Len(ts) : ts[k].id = id}})]

\* ------------------------------------------------------------------ Init
\* The application starts on an empty store (loadTasks finds nothing); the
\* effect of the first render is still to run.
Init ==
  /\ tasks = <<>>
  /\ alerts = <<>>
  /\ today = Today0
  /\ clock = 1
  /\ nextId = 0
  /\ pending = TRUE
  /\ lastCall = Call("init", 0, 0, <<>>)
  /\ maxCycle = <<>>
  /\ dismissed = {}
  /\ lapsed = {}
  /\ projects = {}
  /\ saved = <<>>
  /\ raised = FALSE
  /\ savedDismissed = {}
  /\ archive = <<>>

\* A user's handler runs when the effect of the last render has run.
UserTurn == ~pending /\ clock < MaxClock

\* Every store mutation calls set({ tasks }): AppShell renders again and its
\* [tasks] effect runs.  The handler read the instant clock; time moves on.
Mutated(ts, ids, call) ==
  /\ tasks' = ts
  /\ nextId' = ids
  /\ clock' = clock + 1
  /\ pending' = TRUE
  /\ lastCall' = call
  /\ maxCycle' = CycleHigh(maxCycle, ts)
  /\ saved' = ts
  /\ raised' = FALSE
  /\ UNCHANGED <<alerts, today, dismissed, lapsed, projects, savedDismissed, archive>>

\* ---------------------------------------------------------------- actions
\* AppShell.handleCreateTask (App.tsx 62-85)
CreateTaskOf(data) ==
  Mutated(createTask(tasks, data, clock, nextId),
          nextId + 2 + Len(data.subtasks) + Len(data.milestones),
          Call("createTask", nextId + 1, 0, <<>>))

CreateTask ==
  /\ UserTurn
  /\ Len(tasks) < MaxTasks
  /\ \E status \in {"Not Started", "Complete"}, isRecurring \in BOOLEAN,
        subtasks \in SubtaskInputs :
       CreateTaskOf(FormData("t", status, <<2024, 1, 31>>, isRecurring, defaultRecurrence,
                             subtasks, IF subtasks = <<>> THEN <<>> ELSE <<MilestoneInput>>))

\* A handler's one updateTask(id, patch) call.
UpdateCall(id, patch) ==
  Mutated(updateTask(tasks, id, patch, clock, nextId), nextId + Len(patch),
          Call("updateTask", id, 0, <<[id |-> id, patch |-> patch]>>))

\* TaskDetailPanel.handleStatusChange, the board's handleDragEnd
UpdateStatus ==
  /\ UserTurn
  /\ \E id \in TaskIds, status \in StatusInputs : UpdateCall(id, <<KV("status", status)>>)

\* The recurrence state of a TaskForm opened on task live (TaskForm.tsx 35).
FormRecurrence(live) ==
  IF IsSome(live.recurrence) THEN Val(live.recurrence) ELSE defaultRecurrence

\* TaskDetailPanel.handleEditSave: the form was opened on the live task.
EditSaveOf(live, dueDate, isRecurring) ==
  UpdateCall(live.id, FormPatch(FormData(live.title, live.status, dueDate, isRecurring,
                                         FormRecurrence(live), <<>>, <<>>)))

EditSave ==
  /\ UserTurn
  /\ \E id \in TaskIds, dueDate \in DueInputs, isRecurring \in BOOLEAN :
       EditSaveOf(TaskById(tasks, id), dueDate, isRecurring)

\* RecurringTasks.togglePause (Settings.tsx 219-221)
TogglePauseOf(task) ==
  /\ task.isRecurring
  /\ UpdateCall(task.id, <<KV("isPaused", Some(task.isPaused # Some(TRUE)))>>)

TogglePause ==
  /\ UserTurn
  /\ \E id \in TaskIds : TogglePauseOf(TaskById(tasks, id))

\* TaskDetailPanel.handleDelete
DeleteTask ==
  /\ UserTurn
  /\ \E id \in TaskIds :
       Mutated(deleteTask(tasks, id), nextId, Call("deleteTask", id, 0, <<>>))

\* TaskDetailPanel.handleAddSubtask
AddSubtask ==
  /\ UserTurn
  /\ \E id \in TaskIds :
       /\ Len(TaskById(tasks, id).subtasks) < MaxSubtasks
       /\ Mutated(addSubtask(tasks, id, [title |-> "s", status |-> "Open"], clock, nextId),
                  nextId + 1, Call("addSubtask", id, nextId + 1, <<>>))

\* The subtask checkbox and delete button of TaskDetailPanel
ToggleSubtask ==
  /\ UserTurn
  /\ \E id \in TaskIds :
       \E j \in 1..Len(TaskById(tasks, id).subtasks) :
         Mutated(toggleSubtask(tasks, id, TaskById(tasks, id).subtasks[j].id, clock), nextId,
                 Call("toggleSubtask", id, TaskById(tasks, id).subtasks[j].id, <<>>))

DeleteSubtask ==
  /\ UserTurn
  /\ \E id \in TaskIds :
       \E j \in 1..Len(TaskById(tasks, id).subtasks) :
         Mutated(deleteSubtask(tasks, id, TaskById(tasks, id).subtasks[j].id, clock), nextId,
                 Call("deleteSubtask", id, TaskById(tasks, id).subtasks[j].id, <<>>))

\* TaskDetailPanel.handleAddMilestone
AddMilestone ==
  /\ UserTurn
  /\ \E id \in TaskIds :
       /\ Len(TaskById(tasks, id).milestones) < 1
       /\ Mutated(addMilestone(tasks, id, MilestoneInput, clock, nextId),
                  nextId + 1, Call("addMilestone", id, nextId + 1, <<>>))

\* MilestoneTimeline's status select and delete button
UpdateMilestoneOf(id, ms) ==
  /\ ms.status # "Achieved"
  /\ Mutated(updateMilestone(tasks, id, ms.id, "Achieved", clock), nextId,
             Call("updateMilestone", id, ms.id, <<>>))

UpdateMilestone ==
  /\ UserTurn
  /\ \E id \in TaskIds :
       \E j \in 1..Len(TaskById(tasks, id).milestones) :
         UpdateMilestoneOf(id, TaskById(tasks, id).milestones[j])

DeleteMilestone ==
  /\ UserTurn
  /\ \E id \in TaskIds :
       \E j \in 1..Len(TaskById(tasks, id).milestones) :
         Mutated(deleteMilestone(tasks, id, TaskById(tasks, id).milestones[j].id, clock), nextId,
                 Call("deleteMilestone", id, TaskById(tasks, id).milestones[j].id, <<>>))

\* TaskDetailPanel.handleAddUpdate
AddUpdate ==
  /\ UserTurn
  /\ \E id \in TaskIds :
       /\ Len(TaskById(tasks, id).updates) < 1
       /\ Mutated(addUpdate(tasks, id, "u", clock, nextId), nextId + 2,
                  Call("addUpdate", id, 0, <<>>))

\* The ids of an alert list.
AlertIds(as) == {as[k].id : k \in 1..Len(as)}

\* ------------------------------------------- the host's alert scan
\* Mutant of Swept: the effect is not run again after the sweep's updateTask
\* calls.
Swept_NoRerun(r) ==
  /\ tasks' = r.tasks
  /\ nextId' = r.nextId
  /\ pending' = FALSE
  /\ lastCall' = Call("effect", 0, 0, r.calls)
  /\ maxCycle' = CycleHigh(maxCycle, r.tasks)
  /\ saved' = r.tasks
  /\ raised' = r.threw

\* The store and the host after the sweep r of the effect.
Swept(r) ==
  /\ tasks' = r.tasks
  /\ nextId' = r.nextId
  /\ pending' = (r.calls # <<>>)
  /\ lastCall' = Call("effect", 0, 0, r.calls)
  /\ maxCycle' = CycleHigh(maxCycle, r.tasks)
  /\ saved' = r.tasks
  /\ raised' = r.threw

\* AppShell's effect on [tasks] (App.tsx 55-60): runAlertEngine, then
\* runRecurrenceCheck on the rendered collection.  The updateTask calls of the
\* sweep change the store, so the effect runs again after them.
Effect ==
  /\ pending
  /\ alerts' = computeAlerts(tasks, today)
  /\ lapsed' = lapsed \cup (dismissed \ AlertIds(computeAlerts(tasks, today)))
  /\ \E r \in {checkAndGenerateRecurring(tasks, tasks, clock, nextId)} : Swept(r)
  /\ UNCHANGED <<today, clock, dismissed, projects, savedDismissed, archive>>

Next ==
  \/ CreateTask
  \/ UpdateStatus
  \/ EditSave
  \/ TogglePause
  \/ DeleteTask
  \/ AddSubtask
  \/ ToggleSubtask
  \/ DeleteSubtask
  \/ AddMilestone
  \/ UpdateMilestone
  \/ DeleteMilestone
  \/ AddUpdate
  \/ Effect

Spec == Init /\ [][Next]_vars

\* ------------------------------------------- the store called directly
\* Patches no handler of the application builds, handed to the store's
\* updateTask: with a completedAt of their own, with a reserved updatedAt key.
ApiPatches ==
  { <<KV("completedAt", Some(0))>>,
    <<KV("status", "Complete"), KV("completedAt", None)>>,
    <<KV("status", "In Progress"), KV("completedAt", Some(0))>>,
    <<KV("updatedAt", 0), KV("title", "t2")>>,
    <<KV("recurrence", None)>> }

ApiUpdate ==
  /\ UserTurn
  /\ \E id \in TaskIds, patch \in ApiPatches :
       Mutated(updateTask(tasks, id, patch, clock, nextId), nextId + Len(SelectSeqKeys(patch)),
               Call("updateTask", id, 0, <<[id |-> id, patch |-> patch]>>))

ApiNext ==
  \/ CreateTask
  \/ UpdateStatus
  \/ EditSave
  \/ TogglePause
  \/ ApiUpdate
  \/ Effect

\* useTaskStore.updateTask under the patches of the handlers and ApiPatches.
ApiSpec == Init /\ [][ApiNext]_vars

\* ------------------------------------------- the alert engine's inputs
AlertStatusInputs == {"In Progress", "Complete", "Cancelled"}
AlertPriorityInputs == {"Critical", "High", "Medium"}
AlertDueInputs == {<<2024, 1, 29>>, <<2024, 1, 30>>, <<2024, 1, 31>>, <<2024, 2, 1>>, <<2024, 2, 2>>}
ReminderInputs == 0..3

AlertData(status, priority, dueDate, reminderDays, milestones) ==
  [FormData("t", status, dueDate, FALSE, defaultRecurrence, <<>>, milestones)
     EXCEPT !.priority = priority, !.reminderDays = reminderDays]

\* The store holds one task, just created from the form; the effect is to run.
AlertInit ==
  /\ \E status \in AlertStatusInputs, priority \in AlertPriorityInputs,
        dueDate \in AlertDueInputs, reminderDays \in ReminderInputs,
        milestones \in {<<>>, <<MilestoneInput>>} :
       /\ tasks = createTask(<<>>, AlertData(status, priority, dueDate, reminderDays, milestones), 1, 0)
       /\ nextId = 2 + Len(milestones)
  /\ alerts = <<>>
  /\ today = Today0
  /\ clock = 2
  /\ pending = TRUE
  /\ lastCall = Call("createTask", 1, 0, <<>>)
  /\ maxCycle = CycleHigh(<<>>, tasks)
  /\ dismissed = {}
  /\ lapsed = {}
  /\ projects = {}
  /\ saved = tasks
  /\ raised = FALSE
  /\ savedDismissed = {}
  /\ archive = <<>>

\* computeAlerts, run by the effect, over the inputs of AlertInit.
AlertSpec == AlertInit /\ [][Effect]_vars

\* handleCreateTask for a new, non-recurring task that is at risk, without or
\* with a subtask and a milestone due tomorrow.
CreateAtRisk ==
  /\ UserTurn
  /\ Len(tasks) < MaxTasks
  /\ \E subtasks \in SubtaskInputs :
       CreateTaskOf(FormData("t", "Not Started", <<2024, 1, 31>>, FALSE, defaultRecurrence,
                             subtasks, IF subtasks = <<>> THEN <<>> ELSE <<MilestoneInput>>))

\* ------------------------------------------- the store's operations by id
\* The ids a caller may hand to the store: of the tasks, or of their subtasks
\* and milestones, and 0, which is no one's id.
TaskIdInputs == TaskIds \cup {0}
OwnedIdsOf(task) ==
  {task.subtasks[j].id : j \in 1..Len(task.subtasks)}
  \cup {task.milestones[j].id : j \in 1..Len(task.milestones)}
OwnedIdInputs == UNION {OwnedIdsOf(tasks[i]) : i \in 1..Len(tasks)} \cup {0}
HasTask(ts, id) == \E i \in 1..Len(ts) : ts[i].id = id

StoreUpdateTask ==
  /\ UserTurn
  /\ \E id \in TaskIdInputs :
       Mutated(updateTask(tasks, id, <<KV("title", "t2")>>, clock, nextId),
               nextId + (IF HasTask(tasks, id) THEN 1 ELSE 0),
               Call("updateTask", id, 0, <<[id |-> id, patch |-> <<KV("title", "t2")>>]>>))

StoreDeleteTask ==
  /\ UserTurn
  /\ \E id \in TaskIdInputs :
       Mutated(deleteTask(tasks, id), nextId, Call("deleteTask", id, 0, <<>>))

StoreAddSubtask ==
  /\ UserTurn
  /\ \E id \in TaskIdInputs :
       /\ HasTask(tasks, id) => Len(TaskById(tasks, id).subtasks) < MaxSubtasks
       /\ Mutated(addSubtask(tasks, id, [title |-> "s", status |-> "Open"], clock, nextId),
                  nextId + (IF HasTask(tasks, id) THEN 1 ELSE 0),
                  Call("addSubtask", id, 0, <<>>))

StoreUpdateSubtask ==
  /\ UserTurn
  /\ \E id \in TaskIdInputs, sub \in OwnedIdInputs :
       Mutated(updateSubtask(tasks, id, sub, "Done", clock), nextId,
               Call("updateSubtask", id, sub, <<>>))

StoreDeleteSubtask ==
  /\ UserTurn
  /\ \E id \in TaskIdInputs, sub \in OwnedIdInputs :
       Mutated(deleteSubtask(tasks, id, sub, clock), nextId,
               Call("deleteSubtask", id, sub, <<>>))

StoreToggleSubtask ==
  /\ UserTurn
  /\ \E id \in TaskIdInputs, sub \in OwnedIdInputs :
       Mutated(toggleSubtask(tasks, id, sub, clock), nextId,
               Call("toggleSubtask", id, sub, <<>>))

StoreAddMilestone ==
  /\ UserTurn
  /\ \E id \in TaskIdInputs :
       /\ HasTask(tasks, id) => Len(TaskById(tasks, id).milestones) < 1
       /\ Mutated(addMilestone(tasks, id, MilestoneInput, clock, nextId),
                  nextId + (IF HasTask(tasks, id) THEN 1 ELSE 0),
                  Call("addMilestone", id, 0, <<>>))

StoreUpdateMilestone ==
  /\ UserTurn
  /\ \E id \in TaskIdInputs, ms \in OwnedIdInputs :
       Mutated(updateMilestone(tasks, id, ms, "Achieved", clock), nextId,
               Call("updateMilestone", id, ms, <<>>))

StoreDeleteMilestone ==
  /\ UserTurn
  /\ \E id \in TaskIdInputs, ms \in OwnedIdInputs :
       Mutated(deleteMilestone(tasks, id, ms, clock), nextId,
               Call("deleteMilestone", id, ms, <<>>))

\* addUpdate draws the entry's uuid before it looks for the task.
StoreAddUpdate ==
  /\ UserTurn
  /\ \E id \in TaskIdInputs :
       /\ HasTask(tasks, id) => Len(TaskById(tasks, id).updates) < 2
       /\ Mutated(addUpdate(tasks, id, "u", clock, nextId),
                  nextId + (IF HasTask(tasks, id) THEN 2 ELSE 1),
                  Call("addUpdate", id, 0, <<>>))

StoreNext ==
  \/ CreateAtRisk
  \/ StoreUpdateTask
  \/ StoreDeleteTask
  \/ StoreAddSubtask
  \/ StoreUpdateSubtask
  \/ StoreDeleteSubtask
  \/ StoreToggleSubtask
  \/ StoreAddMilestone
  \/ StoreUpdateMilestone
  \/ StoreDeleteMilestone
  \/ StoreAddUpdate
  \/ Effect

\* useTaskStore's operations under ids that are and ids that are not there.
StoreSpec == Init /\ [][StoreNext]_vars

\* ------------------------------------------- a storage write that fails
\* saveTasks (taskStore.ts 19-21) has no handler around localStorage.setItem:
\* when the write throws (quota exceeded), the exception leaves the store
\* operation before set({ tasks }) and reaches the caller.  The uuids were
\* drawn; nothing was stored or set, so nothing renders again.
WriteFailed(ids, call) ==
  /\ raised' = TRUE
  /\ nextId' = ids
  /\ clock' = clock + 1
  /\ lastCall' = call
  /\ UNCHANGED <<tasks, saved, alerts, today, pending, maxCycle, dismissed, lapsed, projects,
                 savedDismissed, archive>>

\* handleCreateTask while the storage is full
CreateTaskQuota ==
  /\ UserTurn
  /\ Len(tasks) < MaxTasks
  /\ WriteFailed(nextId + 2, Call("createTask", nextId + 1, 0, <<>>))

\* handleStatusChange while the storage is full
UpdateStatusQuota ==
  /\ UserTurn
  /\ \E id \in TaskIds, status \in StatusInputs :
       WriteFailed(nextId + 1,
                   Call("updateTask", id, 0, <<[id |-> id, patch |-> <<KV("status", status)>>]>>))

QuotaNext ==
  \/ CreateAtRisk
  \/ UpdateStatus
  \/ CreateTaskQuota
  \/ UpdateStatusQuota
  \/ Effect

\* The task store over a storage whose writes may fail.
QuotaSpec == Init /\ [][QuotaNext]_vars

\* ------------------------------------------- the sweep's inputs
\* A due date the form's date input gives, and a string that names no day
\* (createTask stores any string).
SweepDueInputs == {<<2024, 1, 31>>, <<2024, 2, 30>>}
SweepData(status, dueDate, isRecurring) ==
  FormData("t", status, dueDate, isRecurring, defaultRecurrence, <<>>, <<>>)

\* The store holds three tasks just created, Complete or not, recurring or
\* not, with a due date that parses or not; the effect is to run.
SweepInit ==
  /\ \E s1, s2, s3 \in {"Complete", "In Progress"}, d1, d2, d3 \in SweepDueInputs,
        r1 \in BOOLEAN :
       tasks = createTask(createTask(createTask(<<>>, SweepData(s1, d1, r1), 1, 0),
                                     SweepData(s2, d2, TRUE), 1, 2),
                          SweepData(s3, d3, TRUE), 1, 4)
  /\ nextId = 6
  /\ alerts = <<>>
  /\ today = Today0
  /\ clock = 2
  /\ pending = TRUE
  /\ lastCall = Call("createTask", 5, 0, <<>>)
  /\ maxCycle = CycleHigh(<<>>, tasks)
  /\ dismissed = {}
  /\ lapsed = {}
  /\ projects = {}
  /\ saved = tasks
  /\ raised = FALSE
  /\ savedDismissed = {}
  /\ archive = <<>>

\* checkAndGenerateRecurring, run by the effect, over SweepInit.
SweepSpec == SweepInit /\ [][Effect]_vars

\* ------------------------------------------- pause and resume
\* A recurring task was created In Progress and then paused
\* (Settings.tsx 219-221); the effect of the pause is to run.
PausedInit ==
  /\ tasks = updateTask(createTask(<<>>, SweepData("In Progress", <<2024, 1, 31>>, TRUE), 0, 0),
                        1, <<KV("isPaused", Some(TRUE))>>, 1, 2)
  /\ nextId = 3
  /\ alerts = computeAlerts(createTask(<<>>, SweepData("In Progress", <<2024, 1, 31>>, TRUE), 0, 0),
                            Today0)
  /\ today = Today0
  /\ clock = 2
  /\ pending = TRUE
  /\ lastCall = Call("updateTask", 1, 0, <<[id |-> 1, patch |-> <<KV("isPaused", Some(TRUE))>>]>>)
  /\ maxCycle = CycleHigh(<<>>, tasks)
  /\ dismissed = {}
  /\ lapsed = {}
  /\ projects = {}
  /\ saved = tasks
  /\ raised = FALSE
  /\ savedDismissed = {}
  /\ archive = <<>>

PauseNext == UpdateStatus \/ EditSave \/ TogglePause \/ Effect

\* React runs the effect of a render whose [tasks] dependency changed: an
\* effect that is due is not postponed for ever (App.tsx 55-60).
PauseSpec == PausedInit /\ [][PauseNext]_vars /\ WF_vars(Effect)

\* ------------------------------------------- the host's timer
\* setInterval(runAlertEngine, 15 * 60 * 1000) (App.tsx 58): the scan of the
\* rendered collection, on the day the timer fires.
Timer ==
  /\ ~pending
  /\ alerts' = computeAlerts(tasks, today)
  /\ lapsed' = lapsed \cup (dismissed \ AlertIds(computeAlerts(tasks, today)))
  /\ lastCall' = Call("timer", 0, 0, <<>>)
  /\ raised' = FALSE
  /\ UNCHANGED <<tasks, today, clock, nextId, pending, maxCycle, dismissed, projects, saved,
                 savedDismissed, archive>>

\* new Date() (alertEngine.ts 11) is a day later from midnight on.
Midnight ==
  /\ ~pending
  /\ today = Today0
  /\ today' = today + 1
  /\ lastCall' = Call("midnight", 0, 0, <<>>)
  /\ UNCHANGED <<tasks, alerts, clock, nextId, pending, maxCycle, dismissed, lapsed, projects,
                 saved, raised, savedDismissed, archive>>

\* The store holds a recurring task that is overdue by more than a week and a
\* task due tomorrow, both In Progress; the effect is to run.
HostInit ==
  /\ tasks = createTask(createTask(<<>>, SweepData("In Progress", <<2024, 1, 22>>, TRUE), 0, 0),
                        SweepData("In Progress", <<2024, 1, 31>>, FALSE), 1, 2)
  /\ nextId = 4
  /\ alerts = <<>>
  /\ today = Today0
  /\ clock = 2
  /\ pending = TRUE
  /\ lastCall = Call("createTask", 3, 0, <<>>)
  /\ maxCycle = CycleHigh(<<>>, tasks)
  /\ dismissed = {}
  /\ lapsed = {}
  /\ projects = {}
  /\ saved = tasks
  /\ raised = FALSE
  /\ savedDismissed = {}
  /\ archive = <<>>

HostNext == UpdateStatus \/ DeleteTask \/ Effect \/ Timer \/ Midnight

\* React runs the effect of a render whose [tasks] dependency changed, and the
\* interval timer set by the effect fires (App.tsx 55-60).
HostSpec == HostInit /\ [][HostNext]_vars /\ WF_vars(Effect) /\ WF_vars(Timer)

\* ------------------------------------------- projects
\* ProjectDetailPanel.projectTasks (ProjectDetailPanel.tsx 54-57)
projectTasks(ts, p) == SelectSeq(ts, LAMBDA t : t.projectId = Some(p))

\* projectTasks.forEach(t => updateTask(t.id, { projectId: undefined }))
\* (ProjectDetailPanel.tsx 78) from linked task i on.
RECURSIVE unlinkFrom(_, _, _, _)
unlinkFrom(linked, i, acc, now) ==
  IF i > Len(linked) THEN acc
  ELSE unlinkFrom(linked, i + 1,
                  SweepCall(acc, linked[i].id, <<KV("projectId", None)>>, now), now)

\* Mutant of ProjectDeleted: the linked tasks are deleted with the project.
ProjectDeleted_Cascades(snapshot, store, p, now, idBase) ==
  [tasks |-> SelectSeq(store, LAMBDA t : t.projectId # Some(p)),
   nextId |-> idBase, calls |-> <<>>, threw |-> FALSE]

\* The task store after handleDelete of project p, rendered with snapshot.
ProjectDeleted(snapshot, store, p, now, idBase) ==
  unlinkFrom(projectTasks(snapshot, p), 1,
             [tasks |-> store, nextId |-> idBase, calls |-> <<>>, threw |-> FALSE], now)

\* The stores and the host after handleDelete of project p left the task
\* store as r: deleteProject (projectStore.ts 50-54) removes the project.
DeleteProjectOf(p, r) ==
  /\ tasks' = r.tasks
  /\ nextId' = r.nextId
  /\ clock' = clock + 1
  /\ pending' = (r.calls # <<>>)
  /\ lastCall' = Call("deleteProject", p, 0, r.calls)
  /\ maxCycle' = CycleHigh(maxCycle, r.tasks)
  /\ saved' = r.tasks
  /\ raised' = FALSE
  /\ projects' = projects \ {p}
  /\ UNCHANGED <<alerts, today, dismissed, lapsed, savedDismissed, archive>>

\* ProjectDetailPanel.handleDelete (ProjectDetailPanel.tsx 76-81)
DeleteProject ==
  /\ UserTurn
  /\ \E p \in projects : DeleteProjectOf(p, ProjectDeleted(tasks, tasks, p, clock, nextId))

\* A task is given a project: updateTask(id, { projectId }).
LinkTask ==
  /\ UserTurn
  /\ \E id \in TaskIds, p \in projects :
       /\ TaskById(tasks, id).projectId # Some(p)
       /\ UpdateCall(id, <<KV("projectId", Some(p))>>)

\* ProjectDetailPanel.handleUnlinkTask (ProjectDetailPanel.tsx 83-85)
UnlinkTask ==
  /\ UserTurn
  /\ \E id \in TaskIds :
       /\ IsSome(TaskById(tasks, id).projectId)
       /\ UpdateCall(id, <<KV("projectId", None)>>)

\* Two projects (createProject drew the uuids 1 and 2) and two tasks, created
\* after them; the effect is to run.
ProjectInit ==
  /\ projects = {1, 2}
  /\ \E s1, s2 \in {"Not Started", "Complete"} :
       tasks = createTask(createTask(<<>>, SweepData(s1, <<2024, 1, 31>>, FALSE), 0, 2),
                          SweepData(s2, <<2024, 1, 31>>, TRUE), 0, 4)
  /\ nextId = 6
  /\ alerts = <<>>
  /\ today = Today0
  /\ clock = 1
  /\ pending = TRUE
  /\ lastCall = Call("createTask", 5, 0, <<>>)
  /\ maxCycle = CycleHigh(<<>>, tasks)
  /\ dismissed = {}
  /\ lapsed = {}
  /\ saved = tasks
  /\ raised = FALSE
  /\ savedDismissed = {}
  /\ archive = <<>>

ProjectNext ==
  \/ LinkTask
  \/ UnlinkTask
  \/ DeleteProject
  \/ Effect

\* Tasks, their links to projects and the deletion of projects.
ProjectSpec == ProjectInit /\ [][ProjectNext]_vars

\* ------------------------------------------- the notification store
\* NotificationPanel's and AlertsNotifications' active alerts
\* (NotificationPanel.tsx 23, AlertsNotifications.tsx 21).
ActiveOf(as, d) == SelectSeq(as, LAMBDA a : a.id \notin d)

\* Mutant of dismissAlert: the new set holds the dismissed id only.
dismissAlert_Forgets(d, id) == {id}

\* dismissAlert (notificationStore.ts 33-38): the set it stores.
dismissAlert(d, id) == d \cup {id}

\* Mutant of clearAll: the new set holds the ids of the stored alerts only.
clearAll_Forgets(d, as) == AlertIds(as)

\* clearAll (notificationStore.ts 40-45): the set it stores.
clearAll(d, as) == d \cup AlertIds(as)

\* Mutant of Dismissed: the set is stored in memory and not written.
Dismissed_MemoryOnly(d, call) ==
  /\ dismissed' = d
  /\ lastCall' = call
  /\ raised' = FALSE
  /\ UNCHANGED <<tasks, alerts, today, clock, nextId, pending, maxCycle, lapsed, projects, saved,
                 savedDismissed, archive>>

\* The notification store after a handler stored the dismissed set d.
Dismissed(d, call) ==
  /\ savedDismissed' = d
  /\ dismissed' = d
  /\ lastCall' = call
  /\ raised' = FALSE
  /\ UNCHANGED <<tasks, alerts, today, clock, nextId, pending, maxCycle, lapsed, projects, saved,
                 archive>>

\* The dismiss button of an active alert (alerts[k]).
DismissAlert ==
  /\ ~pending
  /\ \E k \in 1..Len(alerts) :
       /\ alerts[k].id \notin dismissed
       /\ Dismissed(dismissAlert(dismissed, alerts[k].id), Call("dismissAlert", alerts[k].taskId, k, <<>>))

\* The Clear All button, shown while an alert is active.
ClearAll ==
  /\ ~pending
  /\ ActiveOf(alerts, dismissed) # <<>>
  /\ Dismissed(clearAll(dismissed, alerts), Call("clearAll", 0, 0, <<>>))

NotifNext ==
  \/ CreateAtRisk
  \/ UpdateStatus
  \/ EditSave
  \/ DismissAlert
  \/ ClearAll
  \/ Effect

\* The task store, the alert scan of the effect and the notification store.
NotifSpec == Init /\ [][NotifNext]_vars

\* ------------------------------------------- the milestone scan's inputs
\* Target dates from yesterday to three days ahead, and one that names no day.
MilestoneDateInputs ==
  {<<2024, 1, 29>>, <<2024, 1, 30>>, <<2024, 1, 31>>, <<2024, 2, 1>>, <<2024, 2, 2>>, <<2024, 2, 30>>}
MilestoneOf(targetDate, status) == [name |-> "m", targetDate |-> targetDate, status |-> status]
MilestoneListInputs ==
  {<<MilestoneOf(d, st)>> : d \in MilestoneDateInputs, st \in MilestoneStatuses}
  \cup {<<MilestoneOf(d, st), MilestoneOf(e, su)>> :
          d \in MilestoneDateInputs, st \in MilestoneStatuses,
          e \in {<<2024, 1, 30>>, <<2024, 2, 2>>}, su \in {"Upcoming", "Achieved"}}

\* The store holds a task with one or two milestones and a second task, at
\* risk, with a milestone due tomorrow; the effect is to run.
MilestoneInit ==
  /\ \E status \in AlertStatusInputs,
        dueDate \in {<<2024, 1, 29>>, <<2024, 1, 30>>, <<2024, 1, 31>>, <<2024, 2, 2>>},
        milestones \in MilestoneListInputs :
       /\ tasks = createTask(createTask(<<>>, AlertData(status, "High", dueDate, 2, milestones), 1, 0),
                             AlertData("In Progress", "High", <<2024, 1, 31>>, 2, <<MilestoneInput>>),
                             1, 2 + Len(milestones))
       /\ nextId = 5 + Len(milestones)
  /\ alerts = <<>>
  /\ today = Today0
  /\ clock = 2
  /\ pending = TRUE
  /\ lastCall = Call("createTask", nextId - 2, 0, <<>>)
  /\ maxCycle = CycleHigh(<<>>, tasks)
  /\ dismissed = {}
  /\ lapsed = {}
  /\ projects = {}
  /\ saved = tasks
  /\ raised = FALSE
  /\ savedDismissed = {}
  /\ archive = <<>>

\* computeAlerts' milestone loop, run by the effect, over MilestoneInit.
MilestoneSpec == MilestoneInit /\ [][Effect]_vars

\* ================================================================ claims
IsPrefix(a, b) == Len(a) <= Len(b) /\ SubSeq(b, 1, Len(a)) = a
IsEffectStep == lastCall'.op = "effect"

\* ------------------------------------------- the archive and the storage
\* cutoff.setDate(cutoff.getDate() - 90) (taskStore.ts 215): instants count
\* days here, those before the session being negative.
NinetyDays == 90

\* The filter of archiveOldCompleted (taskStore.ts 216-218, 223-225) for a run
\* at instant now.
IsOld(t, now) ==
  t.status = "Complete" /\ IsSome(t.completedAt) /\ Val(t.completedAt) < now - NinetyDays
toArchive(ts, now) == SelectSeq(ts, LAMBDA t : IsOld(t, now))
Remaining(ts, now) == SelectSeq(ts, LAMBDA t : ~IsOld(t, now))

\* Settings.handleArchive: archiveOldCompleted (taskStore.ts 213-227).  With
\* nothing to archive it returns; else it writes the archive, then the tasks.
ArchiveOld ==
  /\ UserTurn
  /\ clock' = clock + 1
  /\ lastCall' = Call("archiveOldCompleted", 0, 0, <<>>)
  /\ raised' = FALSE
  /\ archive' = archive \o toArchive(tasks, clock)
  /\ tasks' = Remaining(tasks, clock)
  /\ saved' = Remaining(tasks, clock)
  /\ pending' = (toArchive(tasks, clock) # <<>>)
  /\ UNCHANGED <<alerts, today, nextId, maxCycle, dismissed, lapsed, projects, savedDismissed>>

\* archiveOldCompleted while the storage is full for the archive (the first
\* setItem throws) or for the tasks only (saveTasks throws after the archive
\* was written).
ArchiveOldQuota ==
  /\ UserTurn
  /\ toArchive(tasks, clock) # <<>>
  /\ clock' = clock + 1
  /\ lastCall' = Call("archiveOldCompleted", 0, 0, <<>>)
  /\ raised' = TRUE
  /\ \/ archive' = archive
     \/ archive' = archive \o toArchive(tasks, clock)
  /\ UNCHANGED <<tasks, saved, pending, alerts, today, nextId, maxCycle, dismissed, lapsed,
                 projects, savedDismissed>>

\* dismissAlert or clearAll while the storage is full: saveDismissed throws
\* before set (notificationStore.ts 36-37, 43-44).
DismissQuota ==
  /\ ~pending
  /\ ActiveOf(alerts, dismissed) # <<>>
  /\ raised' = TRUE
  /\ lastCall' = Call("dismissAlert", 0, 0, <<>>)
  /\ UNCHANGED <<tasks, alerts, today, clock, nextId, pending, maxCycle, dismissed, lapsed,
                 projects, saved, savedDismissed, archive>>

\* A task as the storage holds it at the start of the session: In Progress and
\* due tomorrow, or Complete, created so or completed at a past instant.
StoredInputs ==
  {<<"In Progress", None>>, <<"Complete", None>>, <<"Complete", Some(-100)>>,
   <<"Complete", Some(-89)>>, <<"Complete", Some(-50)>>}
Stored(ts, st, idBase) ==
  IF st[2] = None THEN createTask(ts, SweepData(st[1], <<2024, 1, 31>>, FALSE), -120, idBase)
  ELSE updateTask(createTask(ts, SweepData("In Progress", <<2024, 1, 31>>, FALSE), -120, idBase),
                  idBase + 1, <<KV("status", "Complete")>>, Val(st[2]), idBase + 2)

\* loadTasks and loadDismissed (taskStore.ts 10-17, notificationStore.ts 6-13):
\* the stores start from what the storage holds.
PersistInit ==
  /\ \E st1 \in StoredInputs, st2 \in {<<"In Progress", None>>, <<"Complete", Some(-100)>>} :
       tasks = Stored(Stored(<<>>, st1, 0), st2, 3)
  /\ nextId = 6
  /\ alerts = <<>>
  /\ today = Today0
  /\ clock = 1
  /\ pending = TRUE
  /\ lastCall = Call("init", 0, 0, <<>>)
  /\ maxCycle = CycleHigh(<<>>, tasks)
  /\ dismissed = {}
  /\ lapsed = {}
  /\ projects = {}
  /\ saved = tasks
  /\ raised = FALSE
  /\ savedDismissed = {}
  /\ archive = <<>>

PersistNext ==
  \/ UpdateStatus
  \/ UpdateStatusQuota
  \/ DismissAlert
  \/ ClearAll
  \/ DismissQuota
  \/ ArchiveOld
  \/ ArchiveOldQuota
  \/ Effect

\* The stores over a storage whose writes may fail, with the archive.
PersistSpec == PersistInit /\ [][PersistNext]_vars

\* ------------------------------------------- the recurrence form
\* format(next, 'MMM d, yyyy') and previewNext (RecurrenceConfig.tsx 12-28):
\* the text shown as 'Next occurrence', or a dash when the date is invalid.
formatMedium(n) ==
  << <<"Jan", "Feb", "Mar", "Apr", "May", "Jun", "Jul", "Aug", "Sep", "Oct", "Nov",
       "Dec">>[format(n)[2]],
     format(n)[3], format(n)[1] >>
PreviewDate(d, pattern, interval) ==
  CASE pattern = "Daily" -> addDays(d, interval)
    [] pattern = "Weekly" -> addWeeks(d, interval)
    [] pattern = "Bi-weekly" -> addWeeks(d, 2)
    [] pattern = "Monthly" -> addMonths(d, interval)
    [] pattern = "Quarterly" -> addQuarters(d, interval)
    [] OTHER -> addDays(d, interval)
previewNext(baseDate, pattern, interval) ==
  IF PreviewDate(parseISO(baseDate), pattern, interval) = InvalidDate
  THEN <<"-">>
  ELSE formatMedium(PreviewDate(parseISO(baseDate), pattern, interval))

\* The due dates, patterns and intervals a recurring task is saved with: the
\* pattern select offers the six patterns and the store takes any string; the
\* interval input (min 1) keeps its value when the pattern is changed.
RecurDueInputs ==
  {<<2024, 1, 31>>, <<2023, 1, 31>>, <<2024, 3, 31>>, <<2024, 1, 15>>, <<2023, 11, 30>>,
   <<2024, 2, 29>>}
RecurData(dueDate, pattern, interval, nextDue) ==
  FormData("t", "In Progress", dueDate, TRUE,
           [defaultRecurrence EXCEPT !.pattern = pattern, !.interval = interval,
                                     !.nextDue = nextDue],
           <<[title |-> "s", status |-> "Done", dueDate |-> <<2024, 1, 20>>]>>,
           <<MilestoneInput>>)

\* createTask(data) at instant 0, then addUpdate on the task at instant 1.
RecurStored(data) == addUpdate(createTask(<<>>, data, 0, 0), 1, "u", 1, 4)

\* The store holds one recurring task with a subtask that is done, a
\* milestone and an update, set to Complete at instant 2; the effect of that
\* is to run.
RecurInit ==
  /\ \E d \in RecurDueInputs, p \in Patterns \cup {"Yearly"}, k \in 1..MaxInterval,
        n \in {None, Some(<<2025, 6, 1>>)} :
       /\ tasks = updateTask(RecurStored(RecurData(d, p, k, n)), 1,
                             <<KV("status", "Complete")>>, 2, 6)
       /\ alerts = computeAlerts(RecurStored(RecurData(d, p, k, n)), Today0)
  /\ nextId = 7
  /\ today = Today0
  /\ clock = 3
  /\ pending = TRUE
  /\ lastCall = Call("updateTask", 1, 0, <<[id |-> 1, patch |-> <<KV("status", "Complete")>>]>>)
  /\ maxCycle = CycleHigh(<<>>, tasks)
  /\ dismissed = {}
  /\ lapsed = {}
  /\ projects = {}
  /\ saved = tasks
  /\ raised = FALSE
  /\ savedDismissed = {}
  /\ archive = <<>>

\* checkAndGenerateRecurring, run by the effect, over RecurInit.
RecurSpec == RecurInit /\ [][Effect]_vars

\* ---- C1 ----------------------------------------------------------------
\* What the driving rule leaves of a completed recurring task old: the same
\* id, status Not Started, no completedAt, cycleCount one higher, and the
\* same subtasks (ids, titles, order), all Open.
C1_Regenerated(old, new) ==
  /\ new.id = old.id
  /\ new.status = "Not Started"
  /\ new.completedAt = None
  /\ IsSome(new.recurrence)
  /\ Val(new.recurrence).cycleCount = Val(old.recurrence).cycleCount + 1
  /\ Len(new.subtasks) = Len(old.subtasks)
  /\ \A j \in 1..Len(old.subtasks) :
       /\ new.subtasks[j].id = old.subtasks[j].id
       /\ new.subtasks[j].title = old.subtasks[j].title
       /\ new.subtasks[j].status = "Open"

C2_NoCompletedWaiting == \A i \in 1..Len(tasks) : ~Eligible(tasks[i])

\* ---- C3 ----------------------------------------------------------------
\* C3: in every reachable state, a task has a completedAt exactly when its
\* status is Complete.
C3_CompletedAtIffComplete ==
  \A i \in 1..Len(tasks) : IsSome(tasks[i].completedAt) <=> tasks[i].status = "Complete"

\* ---- C4 ----------------------------------------------------------------
\* C4: a second pass of the driving rule on the output of a pass makes no
\* updateTask call and changes no field of any task.
C4_SecondPassNoOp ==
  lastCall.op = "effect" =>
    /\ checkAndGenerateRecurring(tasks, tasks, clock, nextId).calls = <<>>
    /\ checkAndGenerateRecurring(tasks, tasks, clock, nextId).tasks = tasks

\* A pass that regenerated a task has just run.
C4_Witness == lastCall.op = "effect" /\ lastCall.calls # <<>>

\* ---- C5 ----------------------------------------------------------------
\* C5: every step keeps, for each task that exists before and after it, the
\* changelog it had as a prefix of the changelog it has.
C5_ChangelogAppendOnly ==
  [][\A i \in 1..Len(tasks) : \A j \in 1..Len(tasks') :
       tasks[i].id = tasks'[j].id => IsPrefix(tasks[i].changelog, tasks'[j].changelog)]_vars

\* A task with history has just been changed by updateTask, by addUpdate and
\* by a regeneration.
C5_Witness ==
  \E i \in 1..Len(tasks) :
    /\ \E e \in 1..Len(tasks[i].changelog) : tasks[i].changelog[e].field = "update"
    /\ \E e \in 1..Len(tasks[i].changelog) : tasks[i].changelog[e].field = "completedAt"
    /\ tasks[i].changelog[1].field = "created"

\* ---- C6 ----------------------------------------------------------------
\* C6: across any sequence of operations on a task, recurrence.cycleCount
\* never falls below a value it has had, and it rises only in a regeneration
\* (a step of the effect's sweep), by exactly 1.
C6_CycleCountMonotone ==
  [][\A j \in 1..Len(tasks') :
       (IsSome(tasks'[j].recurrence) /\ tasks'[j].id \in DOMAIN maxCycle) =>
         /\ CycleOf(tasks'[j]) >= maxCycle[tasks'[j].id]
         /\ CycleOf(tasks'[j]) > maxCycle[tasks'[j].id] =>
              IsEffectStep /\ CycleOf(tasks'[j]) = maxCycle[tasks'[j].id] + 1]_vars

\* ---- C7 ----------------------------------------------------------------
\* The three cases of updateTask's completedAt for a call with patch on the
\* task old at instant now, giving the task new.
C7_Case(old, new, patch, now) ==
  /\ (HasKey(patch, "status") /\ Get(patch, "status") = "Complete" /\ old.status # "Complete")
       => new.completedAt = Some(now)
  /\ (HasKey(patch, "status") /\ Get(patch, "status") # "Complete")
       => new.completedAt = None
  /\ (~HasKey(patch, "status")
        \/ (Get(patch, "status") = "Complete" /\ old.status = "Complete"))
       => new.completedAt = old.completedAt

\* C7: updateTask(id, patch) on an existing task sets completedAt to the
\* current instant when patch.status is Complete and the task was not
\* Complete, clears it when patch.status is present and not Complete, and
\* keeps the previous value otherwise, whatever completedAt the patch carries.
C7_DerivedCompletedAt ==
  [][\A k \in 1..Len(lastCall'.calls) :
       lastCall'.calls[k].id \in TaskIds =>
         C7_Case(TaskById(tasks, lastCall'.calls[k].id),
                 TaskById(tasks', lastCall'.calls[k].id),
                 lastCall'.calls[k].patch, clock)]_vars

\* updateTask has just been called with a patch that carries a completedAt
\* and no status, on a task whose completedAt is another value.
C7_Witness ==
  /\ lastCall.op = "updateTask"
  /\ Len(lastCall.calls) = 1
  /\ HasKey(lastCall.calls[1].patch, "completedAt")
  /\ ~HasKey(lastCall.calls[1].patch, "status")
  /\ \E i \in 1..Len(tasks) :
       /\ tasks[i].id = lastCall.calls[1].id
       /\ IsSome(tasks[i].completedAt)
       /\ tasks[i].completedAt # Get(lastCall.calls[1].patch, "completedAt")

\* ---- C8 ----------------------------------------------------------------
\* The changelog new has after a call with the patch entries ks (the keys
\* other than updatedAt) on the task old: old's entries, then one entry per
\* key in key order, with the key, the prior value as text and the new value
\* as text.
C8_Appended(old, new, ks) ==
  /\ Len(new.changelog) = Len(old.changelog) + Len(ks)
  /\ IsPrefix(old.changelog, new.changelog)
  /\ \A i \in 1..Len(ks) :
       /\ new.changelog[Len(old.changelog) + i].field = ks[i].key
       /\ new.changelog[Len(old.changelog) + i].oldValue = Text(ks[i].key, old[ks[i].key])
       /\ new.changelog[Len(old.changelog) + i].newValue = Text(ks[i].key, ks[i].val)

\* C8: updateTask(id, patch) on an existing task appends exactly one changelog
\* entry per key of the patch other than updatedAt, after the existing entries
\* and in key order, also for a key whose new value equals the old one.
C8_OneEntryPerKey ==
  [][\A k \in 1..Len(lastCall'.calls) :
       lastCall'.calls[k].id \in TaskIds =>
         C8_Appended(TaskById(tasks, lastCall'.calls[k].id),
                     TaskById(tasks', lastCall'.calls[k].id),
                     SelectSeq(lastCall'.calls[k].patch, LAMBDA e : e.key # "updatedAt"))]_vars

\* updateTask has just been called with a patch of several keys, and its last
\* entry records a value that did not change.
C8_Witness ==
  /\ lastCall.op = "updateTask"
  /\ Len(lastCall.calls) = 1
  /\ Len(lastCall.calls[1].patch) > 1
  /\ \E i \in 1..Len(tasks) :
       /\ tasks[i].id = lastCall.calls[1].id
       /\ Len(tasks[i].changelog) > Len(lastCall.calls[1].patch)
       /\ \E e \in 1..Len(tasks[i].changelog) :
            /\ tasks[i].changelog[e].timestamp = tasks[i].updatedAt
            /\ tasks[i].changelog[e].oldValue = tasks[i].changelog[e].newValue

\* ---- C9 ----------------------------------------------------------------
AlertsOf(id, types) == {k \in 1..Len(alerts) : alerts[k].taskId = id /\ alerts[k].type \in types}
DueTypes == {"overdue", "due-today", "at-risk"}
IsClosed(task) == task.status \in {"Complete", "Cancelled"}

\* C9: in the alerts computed from the current collection, a task that is
\* neither Complete nor Cancelled has at most one due-date alert, an overdue
\* one exactly when its due date is before today and a due-today one exactly
\* when it is today; a Complete or Cancelled task has no alert of any kind.
C9_DueDateAlerts ==
  ~pending =>
    \A i \in 1..Len(tasks) :
      IF IsClosed(tasks[i])
      THEN AlertsOf(tasks[i].id, DueTypes \cup {"milestone-due-soon"}) = {}
      ELSE /\ Cardinality(AlertsOf(tasks[i].id, DueTypes)) <= 1
           /\ AlertsOf(tasks[i].id, {"overdue"}) # {} <=> parseISO(tasks[i].dueDate) < today
           /\ AlertsOf(tasks[i].id, {"due-today"}) # {} <=> parseISO(tasks[i].dueDate) = today

\* The alerts were computed for an open task that is due today and has a
\* milestone due soon.
C9_Witness ==
  /\ ~pending
  /\ \E i \in 1..Len(tasks) :
       /\ ~IsClosed(tasks[i])
       /\ parseISO(tasks[i].dueDate) = today
       /\ AlertsOf(tasks[i].id, {"due-today"}) # {}
       /\ AlertsOf(tasks[i].id, {"milestone-due-soon"}) # {}

\* ---- C10 ---------------------------------------------------------------
\* C10: a task has an at-risk alert exactly when it is neither Complete nor
\* Cancelled, its priority is Critical or High and
\* today < dueDate < today + reminderDays, for every reminderDays >= 0.
C10_AtRiskWindow ==
  ~pending =>
    \A i \in 1..Len(tasks) :
      AlertsOf(tasks[i].id, {"at-risk"}) # {} <=>
        /\ ~IsClosed(tasks[i])
        /\ tasks[i].priority \in {"Critical", "High"}
        /\ today < parseISO(tasks[i].dueDate)
        /\ parseISO(tasks[i].dueDate) < today + tasks[i].reminderDays

\* ---- C11 ---------------------------------------------------------------
\* The alerts of type milestone-due-soon for milestone msId of task id.
MilestoneAlertsOf(id, msId) ==
  {k \in 1..Len(alerts) : /\ alerts[k].type = "milestone-due-soon"
                          /\ alerts[k].taskId = id
                          /\ alerts[k].milestoneId = Some(msId)}

\* C11: in the alerts computed from the current collection, a milestone has a
\* milestone-due-soon alert exactly when its task is neither Complete nor
\* Cancelled, its status is neither Achieved nor Missed and its target date
\* is today, today+1 or today+2, whatever due-date alert the task has.
C11_MilestoneDueSoon ==
  ~pending =>
    \A i \in 1..Len(tasks) : \A j \in 1..Len(tasks[i].milestones) :
      MilestoneAlertsOf(tasks[i].id, tasks[i].milestones[j].id) # {} <=>
        /\ ~IsClosed(tasks[i])
        /\ tasks[i].milestones[j].status \notin {"Achieved", "Missed"}
        /\ parseISO(tasks[i].milestones[j].targetDate) \in {today, today + 1, today + 2}

\* The alerts were computed for an overdue task with a milestone due in two
\* days, which has an alert, and a second milestone, which has none.
C11_Witness ==
  /\ ~pending
  /\ \E i \in 1..Len(tasks) :
       /\ AlertsOf(tasks[i].id, {"overdue"}) # {}
       /\ Len(tasks[i].milestones) = 2
       /\ parseISO(tasks[i].milestones[1].targetDate) = today + 2
       /\ MilestoneAlertsOf(tasks[i].id, tasks[i].milestones[1].id) # {}
       /\ MilestoneAlertsOf(tasks[i].id, tasks[i].milestones[2].id) = {}

\* ---- C12 ---------------------------------------------------------------
\* C12: an alert whose id was dismissed, whose condition then stopped holding
\* (a scan did not emit it) and now holds again (the latest scan emits it)
\* is in the active subset.
C12_DismissalLapses ==
  ~pending =>
    \A k \in 1..Len(alerts) :
      alerts[k].id \in lapsed =>
        \E a \in 1..Len(ActiveOf(alerts, dismissed)) : ActiveOf(alerts, dismissed)[a] = alerts[k]

\* ---- C13 ---------------------------------------------------------------
IsDismissStep == lastCall'.op = "dismissAlert" /\ dismissed' # dismissed

\* C13: after dismissAlert(id) for an emitted alert, the alerts recomputed
\* from the same tasks on the same day have as active subset the alerts that
\* were active, without the alert of that id.
C13_DismissedStaysOut ==
  [][IsDismissStep =>
       ActiveOf(computeAlerts(tasks', today'), dismissed')
         = SelectSeq(ActiveOf(alerts, dismissed),
                     LAMBDA a : a.id # alerts[lastCall'.sub].id)]_vars

\* An alert was dismissed while another alert was active and a third id was
\* dismissed before.
C13_Witness ==
  /\ lastCall.op = "dismissAlert"
  /\ Cardinality(dismissed) >= 2
  /\ ActiveOf(alerts, dismissed) # <<>>
  /\ Len(ActiveOf(alerts, dismissed)) < Len(alerts)

\* ---- C14 ---------------------------------------------------------------
\* C14: every alert's id is its type and task id, then the milestone id for a
\* milestone alert, joined by colons; a second scan of the same tasks on the
\* same day gives the same list; no two alerts of a scan share an id.
C14_AlertIds ==
  ~pending =>
    /\ computeAlerts(tasks, today) = alerts
    /\ \A k \in 1..Len(alerts) :
         alerts[k].id = alerts[k].type \o ":" \o ToString(alerts[k].taskId)
                          \o (IF alerts[k].type = "milestone-due-soon"
                              THEN ":" \o ToString(Val(alerts[k].milestoneId)) ELSE "")
    /\ \A k, l \in 1..Len(alerts) : alerts[k].id = alerts[l].id => k = l

\* A scan gave two milestone alerts and a due-date alert for one task and
\* alerts for another task.
C14_Witness ==
  /\ ~pending
  /\ \E i \in 1..Len(tasks) :
       /\ Cardinality(AlertsOf(tasks[i].id, {"milestone-due-soon"})) = 2
       /\ AlertsOf(tasks[i].id, DueTypes) # {}
       /\ \E k \in 1..Len(alerts) : alerts[k].taskId # tasks[i].id

\* ---- C15 ---------------------------------------------------------------
\* C15: no step removes an id from the dismissed set; dismissAlert adds
\* exactly the id of the alert, clearAll adds exactly the ids of the stored
\* alerts, and right after clearAll no alert is active.
C15_DismissedOnlyGrows ==
  [][/\ dismissed \subseteq dismissed'
     /\ IsDismissStep => dismissed' = dismissed \cup {alerts[lastCall'.sub].id}
     /\ dismissed' # dismissed /\ lastCall'.op # "dismissAlert" =>
          /\ lastCall'.op = "clearAll"
          /\ dismissed' = dismissed \cup AlertIds(alerts)
          /\ ActiveOf(alerts', dismissed') = <<>>]_vars

\* clearAll has just run with an id in the set that is no longer an alert's.
C15_Witness ==
  /\ lastCall.op = "clearAll"
  /\ alerts # <<>>
  /\ dismissed \ AlertIds(alerts) # {}

\* ---- C16 ---------------------------------------------------------------
SubtaskOps == {"updateSubtask", "deleteSubtask", "toggleSubtask"}
MilestoneOps == {"updateMilestone", "deleteMilestone"}
SubtaskIdsOf(task) == {task.subtasks[j].id : j \in 1..Len(task.subtasks)}
MilestoneIdsOf(task) == {task.milestones[j].id : j \in 1..Len(task.milestones)}

\* The step is a subtask operation on an existing task with a subtask id the
\* task does not have, or a milestone operation with a milestone id it does
\* not have.
IsMissingChildStep ==
  /\ lastCall'.op \in SubtaskOps \cup MilestoneOps
  /\ lastCall' # lastCall
  /\ HasTask(tasks, lastCall'.id)
  /\ lastCall'.op \in SubtaskOps => lastCall'.sub \notin SubtaskIdsOf(TaskById(tasks, lastCall'.id))
  /\ lastCall'.op \in MilestoneOps => lastCall'.sub \notin MilestoneIdsOf(TaskById(tasks, lastCall'.id))

\* C16: updateSubtask, deleteSubtask and toggleSubtask with a subtask id the
\* existing task does not contain, and updateMilestone and deleteMilestone
\* with a milestone id it does not contain, raise no error and leave the
\* task, its updatedAt included, and the whole collection unchanged.
C16_MissingChildNoOp ==
  [][IsMissingChildStep => tasks' = tasks /\ ~raised']_vars

\* ---- C17 ---------------------------------------------------------------
StoreOps ==
  {"updateTask", "deleteTask", "addUpdate", "addSubtask", "addMilestone"}
  \cup SubtaskOps \cup MilestoneOps

\* C17: updateTask, deleteTask, addUpdate and every subtask and milestone
\* operation called with a task id that is not in the collection raise no
\* error and leave every task and the order and number of tasks unchanged.
C17_MissingTaskNoOp ==
  [][(lastCall'.op \in StoreOps /\ lastCall' # lastCall /\ ~HasTask(tasks, lastCall'.id))
       => tasks' = tasks /\ ~raised']_vars

\* deleteTask has just been called with an id no task has, on a collection
\* of two tasks.
C17_Witness ==
  /\ lastCall.op = "deleteTask"
  /\ ~HasTask(tasks, lastCall.id)
  /\ Len(tasks) = 2
  /\ pending

\* ---- C18 ---------------------------------------------------------------
\* C18: when the storage write of a store mutation fails, the caller gets
\* the failure and the in-memory collection is the one the mutation built:
\* for updateTask the collection with the patch applied, for createTask the
\* collection with the new task at its end.
C18_FailedWriteKeepsChange ==
  [][(raised' /\ lastCall' # lastCall /\ lastCall'.op \in {"createTask", "updateTask"}) =>
       IF lastCall'.op = "updateTask"
       THEN tasks' = updateTask(tasks, lastCall'.id, lastCall'.calls[1].patch, clock, nextId)
       ELSE /\ Len(tasks') = Len(tasks) + 1
            /\ tasks'[Len(tasks')].id = lastCall'.id]_vars

\* ---- C19 ---------------------------------------------------------------
\* C19: a sweep over a collection in which an eligible task has a due date
\* that does not parse lets no exception escape and regenerates every other
\* eligible task, before or after that task in the collection.
C19_SweepIsolatesBadRecord ==
  [][(IsEffectStep /\ \E b \in 1..Len(tasks) : Eligible(tasks[b]) /\ Throws(tasks[b].dueDate)) =>
       /\ ~raised'
       /\ \A i \in 1..Len(tasks) :
            (Eligible(tasks[i]) /\ ~Throws(tasks[i].dueDate)) =>
              /\ tasks'[i].status = "Not Started"
              /\ CycleOf(tasks'[i]) = CycleOf(tasks[i]) + 1]_vars

\* ---- C20 ---------------------------------------------------------------
\* C20: after handleDelete of a project no task has the project's id as
\* projectId, and the task collection holds the task ids it held before.
C20_ProjectDeleteUnlinks ==
  [][(lastCall'.op = "deleteProject" /\ lastCall' # lastCall) =>
       /\ \A j \in 1..Len(tasks') : tasks'[j].projectId # Some(lastCall'.id)
       /\ {tasks'[j].id : j \in 1..Len(tasks')} = TaskIds
       /\ Len(tasks') = Len(tasks)
       /\ lastCall'.id \notin projects']_vars

\* A project with two linked tasks has just been deleted.
C20_Witness ==
  /\ lastCall.op = "deleteProject"
  /\ Len(lastCall.calls) = 2
  /\ Len(tasks) = 2
  /\ \A j \in 1..Len(tasks) : tasks[j].projectId = None

\* ---- C21 ---------------------------------------------------------------
\* The due date the claim states for a task due on d: d moved by interval
\* days (Daily, Custom), interval weeks (Weekly), twice interval weeks
\* (Bi-weekly), interval months (Monthly), three times interval months
\* (Quarterly), one week for any other pattern.
C21_Stated(d, pattern, interval) ==
  CASE pattern \in {"Daily", "Custom"} -> format(parseISO(d) + interval)
    [] pattern = "Weekly" -> format(parseISO(d) + 7 * interval)
    [] pattern = "Bi-weekly" -> format(parseISO(d) + 14 * interval)
    [] pattern = "Monthly" -> format(addMonths(parseISO(d), interval))
    [] pattern = "Quarterly" -> format(addMonths(parseISO(d), 3 * interval))
    [] OTHER -> format(parseISO(d) + 7)

\* C21: the sweep's regeneration of a task computes the new due date from the
\* task's due date alone, whatever recurrence.nextDue and today are, by the
\* stated offset of its pattern and interval; Bi-weekly with interval 1 gives
\* what Weekly with interval 2 gives; recurrence.nextDue is the new due date.
C21_NextDueFromDueDate ==
  [][(IsEffectStep /\ tasks[1].status = "Complete") =>
       /\ tasks'[1].dueDate =
            C21_Stated(tasks[1].dueDate, Val(tasks[1].recurrence).pattern,
                       Val(tasks[1].recurrence).interval)
       /\ Val(tasks'[1].recurrence).nextDue = Some(tasks'[1].dueDate)
       /\ nextDueDate(tasks[1].dueDate, "Bi-weekly", 1)
            = nextDueDate(tasks[1].dueDate, "Weekly", 2)]_vars

\* A Bi-weekly task with interval 2 due 2024-01-15 was regenerated: it is due
\* four weeks later.
C21_Witness ==
  /\ tasks[1].status = "Not Started"
  /\ Val(tasks[1].recurrence).pattern = "Bi-weekly"
  /\ Val(tasks[1].recurrence).interval = 2
  /\ Val(tasks[1].recurrence).cycleCount = 1
  /\ tasks[1].dueDate = <<2024, 2, 12>>
  /\ Val(tasks[1].recurrence).nextDue = Some(<<2024, 2, 12>>)

\* ---- C22 ---------------------------------------------------------------
C22_Months(rec) == IF rec.pattern = "Quarterly" THEN 3 * rec.interval ELSE rec.interval
C22_TargetMonth(d, rec) == (d[1] * 12 + (d[2] - 1)) + C22_Months(rec)

\* C22: a Monthly or Quarterly regeneration lands in the calendar month
\* interval (three times interval) months later, on the same day of the month
\* when that month has it and on the month's last day otherwise: 2024-01-31
\* plus one month is 2024-02-29, 2023-01-31 plus one month is 2023-02-28,
\* 2024-03-31 plus one month is 2024-04-30.
C22_MonthEndClamped ==
  [][(/\ IsEffectStep
      /\ tasks[1].status = "Complete"
      /\ Val(tasks[1].recurrence).pattern \in {"Monthly", "Quarterly"}) =>
       /\ tasks'[1].dueDate[1] = C22_TargetMonth(tasks[1].dueDate, Val(tasks[1].recurrence)) \div 12
       /\ tasks'[1].dueDate[2] =
            (C22_TargetMonth(tasks[1].dueDate, Val(tasks[1].recurrence)) % 12) + 1
       /\ tasks'[1].dueDate[3] =
            IF tasks[1].dueDate[3] > DaysInMonth(tasks'[1].dueDate[1], tasks'[1].dueDate[2])
            THEN DaysInMonth(tasks'[1].dueDate[1], tasks'[1].dueDate[2])
            ELSE tasks[1].dueDate[3]
       /\ (Val(tasks[1].recurrence).pattern = "Monthly" /\ Val(tasks[1].recurrence).interval = 1) =>
            /\ tasks[1].dueDate = <<2024, 1, 31>> => tasks'[1].dueDate = <<2024, 2, 29>>
            /\ tasks[1].dueDate = <<2023, 1, 31>> => tasks'[1].dueDate = <<2023, 2, 28>>
            /\ tasks[1].dueDate = <<2024, 3, 31>> => tasks'[1].dueDate = <<2024, 4, 30>>]_vars

\* A Monthly task with interval 1 was regenerated onto the last day of
\* February 2024: of the due dates drawn, only 2024-01-31 gets there.
C22_Witness ==
  /\ tasks[1].status = "Not Started"
  /\ Val(tasks[1].recurrence).pattern = "Monthly"
  /\ Val(tasks[1].recurrence).interval = 1
  /\ Val(tasks[1].recurrence).cycleCount = 1
  /\ tasks[1].dueDate = <<2024, 2, 29>>

\* ---- C30 ---------------------------------------------------------------
\* C30: for each of the six patterns and every interval of at least 1, the
\* 'Next occurrence' text previewed for a base due date shows the due date
\* the regeneration of a task with that due date produces.
C30_PreviewIsNextDue ==
  [][(/\ IsEffectStep
      /\ tasks[1].status = "Complete"
      /\ Val(tasks[1].recurrence).pattern \in Patterns) =>
       previewNext(tasks[1].dueDate, Val(tasks[1].recurrence).pattern,
                   Val(tasks[1].recurrence).interval)
         = formatMedium(parseISO(tasks'[1].dueDate))]_vars

\* ---- C23 ---------------------------------------------------------------
\* The tasks the claim is about: recurring, not paused, configured, Complete.
DueForRegeneration(task) ==
  /\ task.isRecurring
  /\ task.isPaused # Some(TRUE)
  /\ IsSome(task.recurrence)
  /\ task.status = "Complete"

\* C23: when the effect is run whenever it is due, a recurring, non-paused,
\* configured task that is Complete (completed, or Complete and resumed) is
\* eventually regenerated, Not Started with its due date advanced and its
\* cycleCount 1 higher, and once per completion: every run of the effect
\* raises the cycleCount of such a task by exactly 1 and leaves every other
\* cycleCount alone.
C23_EventuallyRegeneratedOnce ==
  /\ \A c \in 0..MaxClock, d \in DueInputs :
       (DueForRegeneration(tasks[1]) /\ CycleOf(tasks[1]) = c /\ tasks[1].dueDate = d)
         ~> (/\ tasks[1].status = "Not Started"
             /\ CycleOf(tasks[1]) = c + 1
             /\ isAfter(parseISO(tasks[1].dueDate), parseISO(d)))
  /\ [][IsEffectStep =>
          CycleOf(tasks'[1]) = CycleOf(tasks[1]) + (IF DueForRegeneration(tasks[1]) THEN 1 ELSE 0)]_vars

\* The task was completed while paused, then resumed, and the effect after the
\* resume regenerated it: its changelog ends with the completion, the resume
\* and the six entries of the regeneration.
C23_Witness ==
  /\ lastCall.op = "effect"
  /\ tasks[1].status = "Not Started"
  /\ tasks[1].isPaused = Some(FALSE)
  /\ CycleOf(tasks[1]) = 1
  /\ \E k \in 1..Len(tasks[1].changelog) :
       /\ k + 7 = Len(tasks[1].changelog)
       /\ tasks[1].changelog[k].field = "status"
       /\ tasks[1].changelog[k].newValue = "Complete"
       /\ tasks[1].changelog[k + 1].field = "isPaused"
       /\ tasks[1].changelog[k + 2].field = "dueDate"

\* ---- C24 ---------------------------------------------------------------
\* C24: a run of the sweep changes exactly the tasks it finds recurring, not
\* paused, configured and Complete: each of them is changed, and every other
\* task (paused, non-recurring, recurring without configuration, not Complete)
\* keeps every field, changelog and updatedAt included.
C24_SweepChangesOnlyDue ==
  [][IsEffectStep =>
       /\ Len(tasks') = Len(tasks)
       /\ \A i \in 1..Len(tasks) :
            IF DueForRegeneration(tasks[i]) THEN tasks'[i] # tasks[i] ELSE tasks'[i] = tasks[i]]_vars

\* The effect regenerated the second task next to a Complete task that is not
\* recurring and was never touched since its creation.
C24_Witness ==
  /\ lastCall.op = "effect"
  /\ lastCall.calls # <<>>
  /\ Len(tasks) = 2
  /\ tasks[1].status = "Complete"
  /\ ~tasks[1].isRecurring
  /\ tasks[1].updatedAt = tasks[1].createdAt
  /\ Len(tasks[1].changelog) = 1
  /\ CycleOf(tasks[2]) = 1

\* ---- C25 ---------------------------------------------------------------
\* C25: the regeneration of a task keeps its milestones, id, title, priority,
\* createdAt, isRecurring and the pattern and interval of its recurrence, keeps
\* the id, title and due date of every subtask, and empties updates; besides
\* that it changes nothing but dueDate, status, completedAt, the subtasks'
\* statuses, recurrence.lastCompleted, nextDue and cycleCount, updatedAt, and
\* the changelog, to which it only appends.
C25_RegenerationFrame ==
  [][(IsEffectStep /\ DueForRegeneration(tasks[1])) =>
       /\ \A f \in DOMAIN tasks[1] \ {"dueDate", "status", "completedAt", "subtasks", "updates",
                                      "recurrence", "updatedAt", "changelog"} :
            tasks'[1][f] = tasks[1][f]
       /\ tasks'[1].milestones = tasks[1].milestones
       /\ tasks'[1].id = tasks[1].id
       /\ tasks'[1].title = tasks[1].title
       /\ tasks'[1].priority = tasks[1].priority
       /\ tasks'[1].createdAt = tasks[1].createdAt
       /\ tasks'[1].isRecurring = tasks[1].isRecurring
       /\ \A f \in DOMAIN Val(tasks[1].recurrence) \ {"lastCompleted", "nextDue", "cycleCount"} :
            Val(tasks'[1].recurrence)[f] = Val(tasks[1].recurrence)[f]
       /\ Len(tasks'[1].subtasks) = Len(tasks[1].subtasks)
       /\ \A j \in 1..Len(tasks[1].subtasks) :
            /\ DOMAIN tasks'[1].subtasks[j] = DOMAIN tasks[1].subtasks[j]
            /\ \A f \in DOMAIN tasks[1].subtasks[j] \ {"status"} :
                 tasks'[1].subtasks[j][f] = tasks[1].subtasks[j][f]
       /\ tasks'[1].updates = <<>>
       /\ IsPrefix(tasks[1].changelog, tasks'[1].changelog)]_vars

\* A regenerated task: its update is gone, its subtask is open again and
\* still due 2024-01-20, its milestone is the one it was created with.
C25_Witness ==
  /\ lastCall.op = "effect"
  /\ CycleOf(tasks[1]) = 1
  /\ tasks[1].status = "Not Started"
  /\ tasks[1].completedAt = None
  /\ tasks[1].updates = <<>>
  /\ Len(tasks[1].changelog) = 9
  /\ tasks[1].subtasks[1].status = "Open"
  /\ tasks[1].subtasks[1].dueDate = <<2024, 1, 20>>
  /\ tasks[1].milestones[1].targetDate = <<2024, 1, 31>>
  /\ tasks[1].milestones[1].status = "Upcoming"

\* ---- C26 ---------------------------------------------------------------
\* C26: whenever the effect has run and is not due again, the stored alerts
\* are those computed from the store's collection, although the effect scans
\* before it sweeps; and once the collection changes no more, the stored
\* alerts are for good those of the collection on the current day, so that
\* none is about a task that is Complete, Cancelled or deleted.
C26_AlertsOfLatestCollection ==
  /\ [][(IsEffectStep /\ ~pending') => alerts' = computeAlerts(tasks', today')]_vars
  /\ <>[](/\ alerts = computeAlerts(tasks, today)
          /\ \A k \in 1..Len(alerts) :
               \E i \in 1..Len(tasks) :
                 /\ tasks[i].id = alerts[k].taskId
                 /\ tasks[i].status \notin {"Complete", "Cancelled"})

\* The recurring task was completed and regenerated a week later, still
\* overdue: the effect that ran after the sweep stored the alert of the new
\* due date.
C26_Witness ==
  /\ lastCall.op = "effect"
  /\ ~pending
  /\ Len(tasks) = 2
  /\ CycleOf(tasks[1]) = 1
  /\ tasks[1].dueDate = <<2024, 1, 29>>
  /\ \E k \in 1..Len(alerts) : alerts[k].taskId = 1 /\ alerts[k].type = "overdue"

\* ---- C27 ---------------------------------------------------------------
\* The list a sub-operation owns.
C27_OwnedList(op) ==
  IF op \in {"addSubtask", "updateSubtask", "deleteSubtask", "toggleSubtask"}
  THEN "subtasks" ELSE "milestones"

\* What the claim states of addUpdate on a task: one changelog entry more, of
\* field 'update'; the new entry first in updates, which stay newest first;
\* nothing else changed but updatedAt.
C27_AddUpdateOn(old, new, now) ==
  /\ Len(new.changelog) = Len(old.changelog) + 1
  /\ IsPrefix(old.changelog, new.changelog)
  /\ new.changelog[Len(new.changelog)].field = "update"
  /\ Len(new.updates) = Len(old.updates) + 1
  /\ new.updates[1].timestamp = now
  /\ \A k \in 1..Len(old.updates) : new.updates[k + 1] = old.updates[k]
  /\ \A k \in 1..Len(old.updates) : new.updates[k].timestamp >= new.updates[k + 1].timestamp
  /\ \A f \in DOMAIN old \ {"updates", "changelog", "updatedAt"} : new[f] = old[f]

\* C27: of the sub-operations on a task that exists, addUpdate alone appends
\* to the changelog, one entry of field 'update', and puts the new entry first
\* in updates; the seven subtask and milestone operations change nothing but
\* the list they own and updatedAt; every sub-operation sets updatedAt to the
\* instant it runs at and leaves every other task as it is.
C27_SubOperationsFrame ==
  [][(lastCall' # lastCall /\ lastCall'.op \in (StoreOps \ {"updateTask", "deleteTask"})) =>
       /\ Len(tasks') = Len(tasks)
       /\ \A i \in 1..Len(tasks) :
            IF tasks[i].id # lastCall'.id THEN tasks'[i] = tasks[i]
            ELSE /\ tasks'[i].updatedAt = clock
                 /\ IF lastCall'.op = "addUpdate"
                    THEN C27_AddUpdateOn(tasks[i], tasks'[i], clock)
                    ELSE \A f \in DOMAIN tasks[i] \ {C27_OwnedList(lastCall'.op), "updatedAt"} :
                           tasks'[i][f] = tasks[i][f]]_vars

\* A second update was added to a task: it stands before the first.
C27_Witness ==
  /\ lastCall.op = "addUpdate"
  /\ \E i \in 1..Len(tasks) :
       /\ tasks[i].id = lastCall.id
       /\ Len(tasks[i].updates) = 2
       /\ tasks[i].updates[1].timestamp > tasks[i].updates[2].timestamp
       /\ tasks[i].updatedAt = tasks[i].updates[1].timestamp

\* ---- C28 ---------------------------------------------------------------
\* C28: between operations the persisted task collection is the in-memory
\* collection and the persisted dismissed ids are the in-memory dismissed ids;
\* an operation left by the exception of a storage write changes neither the
\* stored nor the in-memory tasks and dismissed ids.
C28_StorageMirrorsMemory ==
  /\ [](saved = tasks /\ savedDismissed = dismissed)
  /\ [][raised' =>
          /\ tasks' = tasks /\ saved' = saved
          /\ dismissed' = dismissed /\ savedDismissed' = savedDismissed]_vars

\* An alert was dismissed, then a task write failed: the dismissed ids are
\* stored, the tasks are those of before.
C28_Witness ==
  /\ dismissed # {}
  /\ savedDismissed = dismissed
  /\ raised
  /\ lastCall.op = "updateTask"
  /\ saved = tasks

\* ---- C29 ---------------------------------------------------------------
\* The tasks the claim has archived by a run at instant now: Complete, with a
\* completedAt more than 90 days before now.
C29_Old(t, now) ==
  t.status = "Complete" /\ t.completedAt # None /\ now - Val(t.completedAt) > 90

\* A run of archiveOldCompleted that returns moves exactly those tasks, as
\* they are, to the end of the archive and keeps every other task as it is.
C29_MovesExactlyOld ==
  [][(lastCall' # lastCall /\ lastCall'.op = "archiveOldCompleted" /\ ~raised') =>
       /\ tasks' = SelectSeq(tasks, LAMBDA t : ~C29_Old(t, clock))
       /\ archive' = archive \o SelectSeq(tasks, LAMBDA t : C29_Old(t, clock))]_vars

\* C29: archiveOldCompleted moves exactly the tasks that are Complete with a
\* completedAt more than 90 days old from the active collection to the
\* archive, and after any sequence of operations, an archive run whose write
\* of the tasks fails included, no task is both active and archived and none
\* is in the archive twice.
C29_ArchivedOrActive ==
  /\ C29_MovesExactlyOld
  /\ [](/\ \A i \in 1..Len(tasks), k \in 1..Len(archive) : tasks[i].id # archive[k].id
        /\ \A k1, k2 \in 1..Len(archive) : archive[k1].id = archive[k2].id => k1 = k2)

====
